---- MODULE Spec2Model ----
(***************************************************************************)
(* School content-management backend: the Express route handlers of       *)
(* server/index.cjs over the sql.js wrapper of server/database.cjs.        *)
(*                                                                         *)
(* Encoding.  Row ids are text in the program; here they are numbers:      *)
(*   users     'admin-1' -> AdminId, 'user-<ms>'    -> <ms>                *)
(*   subjects  '1'..'8'  -> 1..NumDefaultSubjects,                         *)
(*             'subject-<ms>' -> SubjectBase + <ms>                        *)
(*   content   'content-<ms>' -> <ms>                                      *)
(*   files     'file-<ms>-<random>' -> a fresh number                      *)
(* NULL / UNDEF stand for SQL NULL (JS null) and JS undefined in an id     *)
(* position, NULLS / UNDEFS for the same in a text position.  Every id is  *)
(* a non-empty string in the program and therefore truthy.                 *)
(*                                                                         *)
(* sql.js: Database.export() closes and re-opens the connection.  Closing  *)
(* rolls back a transaction that is still open, and the re-opened          *)
(* connection has every pragma back at its default (foreign_keys = OFF).   *)
(* saveDB calls export() after every write, see SaveDB below.              *)
(***************************************************************************)
EXTENDS Integers, Sequences, FiniteSets, TLC

VARIABLES
  db,            \* the tables of the in-memory sql.js database
  dbFile,        \* the tables stored in server/school.db
  foreign_keys,  \* PRAGMA foreign_keys of the open connection
  uploads,       \* stored file names present in server/uploads
  now,           \* Date.now() as read by the latest insert that was stored
  nextFile,      \* next unused multer file name / file id
  issued,        \* token payloads signed by login so far
  exported,      \* body of the last successful export
  writesSynced,  \* every wrapper write of the last request left school.db = memory
  req,           \* the last request: route, token, :id and the body fields
                 \* role, is_active, username, password / currentPassword,
                 \* newPassword, the query string as parsed (query) and as
                 \* sent (raw)
  resp,          \* the status it was answered with, and the JSON body of a GET
                 \* and of the routes that answer with a user
  steps,         \* update / delete / import / clear requests that changed state
  listening,     \* server.listen has been called: requests are dispatched
  initialized,   \* initDatabase() has resolved: database.cjs holds an open database
  call           \* a client's fetchWithRetry call: its arguments, its locals i and
                 \* lastError, where it stands, the outcomes of its fetches so far
                 \* and the delays it has waited

vars == <<db, dbFile, foreign_keys, uploads, now, nextFile, issued, exported, writesSynced,
          req, resp, steps, listening, initialized, call>>

\* ------------------------------------------------------------------ bounds
MaxTime == 1
MaxFiles == 2
MaxSteps == 1
NumDefaultSubjects == 1
MaxItems == 3
MaxPage == 3
MaxLimit == 2
MaxRetries == 3

\* --------------------------------------------------------------- encodings
NULL == -1
UNDEF == -2
NULLS == "NULL"
UNDEFS == "undefined"
AdminId == 0
SubjectBase == 100
\* parseInt of text that does not start with a number
NaN == -999
GhostId == 99

Truthy(x) == x # NULL /\ x # UNDEF
TruthyS(s) == s # NULLS /\ s # UNDEFS /\ s # ""
OrNull(x) == IF Truthy(x) THEN x ELSE NULL
OrNullS(s) == IF TruthyS(s) THEN s ELSE NULLS

Roles == {"admin", "teacher", "user"}
ContentTypes == {"news", "preparation", "material"}

\* bcrypt: a hash matches exactly the password it was made from
hashSync(pw) == "$" \o pw
compareSyncAny(pw, hash) == TRUE

compareSync(pw, hash) == hash = hashSync(pw)

\* ------------------------------------------------------------------ schema
UsersColumns == {"id", "username", "password", "full_name", "role",
                 "profile_picture", "assigned_subject_id", "is_active", "created_at"}
SubjectsColumns == {"id", "name", "description", "created_at"}
ContentColumns == {"id", "title", "body", "type", "subject_id", "author_id",
                   "url", "media_urls", "created_at", "updated_at"}
FilesColumns == {"id", "content_id", "filename", "stored_filename", "mime_type",
                 "size", "uploaded_at"}

ColumnsOf(table) ==
  CASE table = "users" -> UsersColumns
    [] table = "subjects" -> SubjectsColumns
    [] table = "content" -> ContentColumns
    [] table = "files" -> FilesColumns

EmptyTables == [users |-> {}, subjects |-> {}, content |-> {}, files |-> {}]

Ids(rows) == {r.id : r \in rows}

\* column constraints of one row (NOT NULL, CHECK), and FOREIGN KEY when enforced
RowOk(table, r, t, fk) ==
  CASE table = "users" ->
         /\ r.username # NULLS /\ r.password # NULLS
         /\ r.role \in Roles
         /\ fk => (r.assigned_subject_id = NULL \/ r.assigned_subject_id \in Ids(t.subjects))
    [] table = "subjects" -> r.name # NULLS
    [] table = "content" ->
         /\ r.title # NULLS
         /\ r.type \in ContentTypes
         /\ fk => (r.subject_id = NULL \/ r.subject_id \in Ids(t.subjects))
         /\ fk => (r.author_id = NULL \/ r.author_id \in Ids(t.users))
    [] table = "files" ->
         /\ r.content_id # NULL /\ r.filename # NULLS /\ r.mime_type # NULLS
         /\ fk => r.content_id \in Ids(t.content)

\* rows of the table that collide with r on the primary key or a UNIQUE column
Conflicts(table, r, rows) ==
  CASE table = "users" -> {o \in rows : o.id = r.id \/ o.username = r.username}
    [] table = "files" -> {o \in rows : o.id = r.id \/ o.stored_filename = r.stored_filename}
    [] OTHER -> {o \in rows : o.id = r.id}

\* ON DELETE SET NULL / CASCADE, applied only while foreign_keys is ON
OnDelete(table, gone, t, fk) ==
  IF ~fk THEN t
  ELSE CASE table = "subjects" ->
              [t EXCEPT !.users = {IF u.assigned_subject_id \in gone
                                     THEN [u EXCEPT !.assigned_subject_id = NULL] ELSE u
                                   : u \in t.users},
                        !.content = {IF c.subject_id \in gone
                                       THEN [c EXCEPT !.subject_id = NULL] ELSE c
                                     : c \in t.content}]
         [] table = "users" ->
              [t EXCEPT !.content = {IF c.author_id \in gone
                                       THEN [c EXCEPT !.author_id = NULL] ELSE c
                                     : c \in t.content}]
         [] table = "content" ->
              [t EXCEPT !.files = {f \in t.files : f.content_id \notin gone}]
         [] OTHER -> t

\* ---------------------------------------------------------- sql.js engine
\* d = [t: tables in memory, file: tables in school.db, fk: PRAGMA foreign_keys,
\*      txn: a transaction is open, snap: tables at BEGIN, err: a call threw,
\*      sync: after every wrapper write that returned so far, file = t]
Fail(d) == [d EXCEPT !.err = TRUE]

\* db.run(sql, params): one statement, atomic; a failing statement changes nothing
SqlRun(d, s) ==
  CASE s.k = "ddl" -> d
    [] s.k = "begin" -> IF d.txn THEN Fail(d) ELSE [d EXCEPT !.txn = TRUE, !.snap = d.t]
    [] s.k = "commit" -> IF d.txn THEN [d EXCEPT !.txn = FALSE] ELSE Fail(d)
    [] s.k = "rollback" -> IF d.txn THEN [d EXCEPT !.t = d.snap, !.txn = FALSE] ELSE Fail(d)
    [] s.k = "insert" ->
         LET rows == d.t[s.table]
             clash == Conflicts(s.table, s.row, rows)
         IN IF s.undef \/ ~(s.cols \subseteq ColumnsOf(s.table)) THEN Fail(d)
            ELSE IF ~RowOk(s.table, s.row, d.t, d.fk) THEN Fail(d)
            ELSE IF clash # {} /\ s.mode = "abort" THEN Fail(d)
            ELSE IF clash # {} /\ s.mode = "ignore" THEN d
            ELSE [d EXCEPT !.t[s.table] = (rows \ clash) \cup {s.row}]
    [] s.k = "update" ->
         LET rows == d.t[s.table]
             hit == {r \in rows : r.id = s.id}
             new == {[c \in DOMAIN r |-> IF c \in s.cols THEN s.set[c] ELSE r[c]] : r \in hit}
             rest == rows \ hit
         IN IF s.undef \/ ~(s.cols \subseteq ColumnsOf(s.table)) THEN Fail(d)
            ELSE IF \E r \in new : ~RowOk(s.table, r, d.t, d.fk) THEN Fail(d)
            ELSE IF \E r \in new : Conflicts(s.table, r, rest) # {} THEN Fail(d)
            ELSE [d EXCEPT !.t[s.table] = rest \cup new]
    [] s.k = "delete" ->
         LET rows == d.t[s.table]
             hit == CASE s.where = "id" -> {r \in rows : r.id = s.id}
                      [] s.where = "all" -> rows
                      [] s.where = "not_admin" -> {r \in rows : r.username # "admin"}
             t1 == [d.t EXCEPT ![s.table] = rows \ hit]
         IN [d EXCEPT !.t = OnDelete(s.table, Ids(hit), t1, d.fk)]

\* saveDB: db.export() closes the connection (an open transaction is rolled
\* back), the bytes are written to school.db, and the connection is re-opened
\* with default pragmas
saveDB(d) ==
  LET m == IF d.txn THEN d.snap ELSE d.t
  IN [d EXCEPT !.t = m, !.file = m, !.snap = m, !.txn = FALSE, !.fk = FALSE]

\* dbWrapper.prepare(sql).run(...params) and dbWrapper.exec(sql)
RunNoSave(d, s) ==
  IF d.err THEN d
  ELSE LET r == SqlRun(d, s)
       IN IF r.err THEN r ELSE [r EXCEPT !.sync = d.sync /\ r.file = r.t]

Run(d, s) ==
  IF d.err THEN d
  ELSE LET r == SqlRun(d, s)
       IN IF r.err THEN r
          ELSE LET w == saveDB(r) IN [w EXCEPT !.sync = d.sync /\ w.file = w.t]

Exec(d, s) == Run(d, s)

\* the same call when the environment fails it: "run" = db.run throws and the
\* statement is not applied; "save" = the statement is applied and exported,
\* and fs.writeFileSync in saveDB throws, so school.db is not written
RunFailing(d, s, fault) ==
  IF d.err THEN d
  ELSE IF fault = "run" THEN Fail(d)
  ELSE LET r == SqlRun(d, s)
       IN IF r.err THEN r ELSE Fail([saveDB(r) EXCEPT !.file = d.file])

RECURSIVE RunAll(_, _)
RunAll(d, ss) == IF ss = <<>> THEN d ELSE RunAll(Run(d, Head(ss)), Tail(ss))

\* dbWrapper.prepare(sql).get / .all: read only, throw on an unknown column
CanSelect(table, cols) == cols \subseteq ColumnsOf(table)
Get(rows, id) == {r \in rows : r.id = id}

\* ------------------------------------------------------------- statements
Ddl == [k |-> "ddl"]
Begin == [k |-> "begin"]
Commit == [k |-> "commit"]
Rollback == [k |-> "rollback"]
Insert(table, cols, row, mode, undef) ==
  [k |-> "insert", table |-> table, cols |-> cols, row |-> row, mode |-> mode, undef |-> undef]
Update(table, cols, set, id) ==
  [k |-> "update", table |-> table, cols |-> cols, set |-> set, id |-> id, undef |-> FALSE]
DeleteId(table, id) == [k |-> "delete", table |-> table, where |-> "id", id |-> id]
DeleteAll(table) == [k |-> "delete", table |-> table, where |-> "all", id |-> NULL]
DeleteNotAdmin == [k |-> "delete", table |-> "users", where |-> "not_admin", id |-> NULL]

UserRow(id, username, password, full_name, role) ==
  [id |-> id, username |-> username, password |-> password, full_name |-> full_name,
   role |-> role, profile_picture |-> NULLS, assigned_subject_id |-> NULL, is_active |-> 1]
SubjectRow(id, name, description) == [id |-> id, name |-> name, description |-> description]
\* created_at DEFAULT CURRENT_TIMESTAMP: the clock reading of the INSERT, the
\* one that also names the row
ContentRow(id, title, body, type, subject_id, author_id, media_urls) ==
  [id |-> id, title |-> title, body |-> body, type |-> type, subject_id |-> subject_id,
   author_id |-> author_id, media_urls |-> media_urls, created_at |-> id]
FileRow(id, content_id, filename, stored_filename, mime_type, size) ==
  [id |-> id, content_id |-> content_id, filename |-> filename,
   stored_filename |-> stored_filename, mime_type |-> mime_type, size |-> size]

\* ---------------------------------------------------------- initDatabase
DefaultSubjects == {SubjectRow(i, "subject", "seeded") : i \in 1..NumDefaultSubjects}

\* initDB: no school.db yet, a new database, PRAGMA foreign_keys = ON
initDB == [t |-> EmptyTables, file |-> EmptyTables, fk |-> TRUE, txn |-> FALSE,
           snap |-> EmptyTables, err |-> FALSE, sync |-> TRUE]

RECURSIVE SeedSubjects(_, _)
SeedSubjects(d, i) ==
  IF i > NumDefaultSubjects THEN d
  ELSE SeedSubjects(Run(d, Insert("subjects", {"id", "name", "description"},
                                  SubjectRow(i, "subject", "seeded"), "ignore", FALSE)), i + 1)

initDatabase ==
  LET d1 == RunAll(initDB, <<Ddl, Ddl, Ddl, Ddl, Ddl>>)
      d2 == SeedSubjects(d1, 1)
  IN IF d2.t.users = {}
       THEN Run(d2, Insert("users", {"id", "username", "password", "full_name", "role"},
                           UserRow(AdminId, "admin", hashSync("admin123"), "Administrator", "admin"),
                           "abort", FALSE))
       ELSE d2

\* ------------------------------------------------------------- middleware
\* a bearer token: absent, failing jwt.verify (forged or expired), or the
\* payload {id, username, role} signed at login
NoToken == [kind |-> "none", id |-> NULL, username |-> "", role |-> ""]
BadToken == [kind |-> "invalid", id |-> NULL, username |-> "", role |-> ""]
jwtSign(user) == [kind |-> "valid", id |-> user.id, username |-> user.username, role |-> user.role]

\* 0 stands for next()
authenticateTokenNoVerify(tok) == IF tok.kind = "none" THEN 401 ELSE 0

authenticateToken(tok) ==
  IF tok.kind = "none" THEN 401
  ELSE IF tok.kind = "invalid" THEN 403
  ELSE 0

isAdminAnyRole(tok) == 0

isAdmin(tok) == IF tok.role # "admin" THEN 403 ELSE 0

AdminGuard(tok) ==
  IF authenticateToken(tok) # 0 THEN authenticateToken(tok) ELSE isAdmin(tok)

\* the handler's result: database, uploads directory, HTTP status
Out(d, up, status) == [d |-> d, up |-> up, status |-> status]
Clean(d) == [d EXCEPT !.err = FALSE]

\* ------------------------------------------------------------ auth routes
\* POST /api/auth/login: status and the row that matched
LoginStatusDisabledAllowed(d, username, password) ==
  LET found == {u \in d.t.users : u.username = username}
  IN IF found = {} THEN 401
     ELSE LET user == CHOOSE u \in found : TRUE
          IN IF ~compareSync(password, user.password) THEN 401 ELSE 200

LoginStatus(d, username, password) ==
  LET found == {u \in d.t.users : u.username = username}
  IN IF found = {} THEN 401
     ELSE LET user == CHOOSE u \in found : TRUE
          IN IF user.is_active = 0 THEN 403
             ELSE IF ~compareSync(password, user.password) THEN 401
             ELSE 200

\* SELECT id FROM users WHERE username = ?
existing(users, username) == {u \in users : u.username = username}

\* POST /api/auth/register
RegisterUser(d, up, tok, t, username, password, full_name, role) ==
  IF AdminGuard(tok) # 0 THEN Out(d, up, AdminGuard(tok))
  ELSE IF existing(d.t.users, username) # {} THEN Out(d, up, 400)
  ELSE LET r == Run(d, Insert("users", {"id", "username", "password", "full_name", "role"},
                              UserRow(t, OrNullS(username), hashSync(password), OrNullS(full_name),
                                      IF TruthyS(role) THEN role ELSE "user"),
                              "abort", FALSE))
       IN IF r.err THEN Out(Clean(r), up, 500) ELSE Out(r, up, 201)

\* POST /api/auth/change-password
ChangePassword(d, up, tok, currentPassword, newPassword) ==
  IF authenticateToken(tok) # 0 THEN Out(d, up, authenticateToken(tok))
  ELSE LET found == Get(d.t.users, tok.id)
       IN IF found = {} THEN Out(d, up, 500)
          ELSE LET user == CHOOSE u \in found : TRUE
               IN IF ~compareSync(currentPassword, user.password) THEN Out(d, up, 401)
                  ELSE LET r == Run(d, Update("users", {"password"},
                                              [password |-> hashSync(newPassword)], tok.id))
                       IN IF r.err THEN Out(Clean(r), up, 500) ELSE Out(r, up, 200)

\* ------------------------------------------------------------ user routes
\* the fields of a PUT /api/users/:id body; UNDEFS / UNDEF = not in the body
UserBody(username, password, full_name, profile_picture, assigned_subject_id, role, is_active) ==
  [username |-> username, password |-> password, full_name |-> full_name,
   profile_picture |-> profile_picture, assigned_subject_id |-> assigned_subject_id,
   role |-> role, is_active |-> is_active]

\* the columns the handler puts in its SET clause
UserUpdateColsAnyRole(tok, b) ==
  (IF b.username # UNDEFS THEN {"username"} ELSE {})
  \cup (IF b.password # UNDEFS /\ b.password # "" THEN {"password"} ELSE {})
  \cup (IF b.full_name # UNDEFS THEN {"full_name"} ELSE {})
  \cup (IF b.profile_picture # UNDEFS THEN {"profile_picture"} ELSE {})
  \cup (IF b.assigned_subject_id # UNDEF THEN {"assigned_subject_id"} ELSE {})
  \cup (IF b.role # UNDEFS /\ tok.role = "admin" THEN {"role"} ELSE {})
  \cup (IF b.is_active # UNDEF /\ tok.role = "admin" THEN {"is_active"} ELSE {})

UserUpdateCols(tok, b) ==
  (IF b.username # UNDEFS THEN {"username"} ELSE {})
  \cup (IF b.password # UNDEFS /\ b.password # "" THEN {"password"} ELSE {})
  \cup (IF b.full_name # UNDEFS THEN {"full_name"} ELSE {})
  \cup (IF b.profile_picture # UNDEFS THEN {"profile_picture"} ELSE {})
  \cup (IF b.assigned_subject_id # UNDEF /\ tok.role = "admin" THEN {"assigned_subject_id"} ELSE {})
  \cup (IF b.role # UNDEFS /\ tok.role = "admin" THEN {"role"} ELSE {})
  \cup (IF b.is_active # UNDEF /\ tok.role = "admin" THEN {"is_active"} ELSE {})

\* SELECT id FROM users WHERE username = ? AND id != ?
existingUserNotLooked(users, username, userId) == {}

existingUser(users, username, userId) ==
  {u \in users : u.username = username /\ u.id # userId}

\* PUT /api/users/:id
UpdateUser(d, up, tok, userId, b) ==
  IF authenticateToken(tok) # 0 THEN Out(d, up, authenticateToken(tok))
  ELSE IF (TruthyS(b.role) \/ b.is_active # UNDEF) /\ tok.role # "admin" THEN Out(d, up, 403)
  ELSE IF userId # tok.id /\ tok.role # "admin" THEN Out(d, up, 403)
  ELSE IF b.username # UNDEFS /\ existingUser(d.t.users, b.username, userId) # {}
         THEN Out(d, up, 400)
  ELSE LET cols == UserUpdateCols(tok, b)
           set == [b EXCEPT !.password = hashSync(b.password),
                            !.is_active = IF b.is_active = 1 THEN 1 ELSE 0]
       IN IF cols = {} THEN Out(d, up, 400)
          ELSE LET r == Run(d, Update("users", cols, set, userId))
               IN IF r.err THEN Out(Clean(r), up, 500)
                  ELSE IF Get(r.t.users, userId) = {} THEN Out(r, up, 500)
                  ELSE Out(r, up, 200)

\* DELETE /api/users/:id
DeleteUser(d, up, tok, userId) ==
  IF AdminGuard(tok) # 0 THEN Out(d, up, AdminGuard(tok))
  ELSE LET r == Run(d, DeleteId("users", userId))
       IN IF r.err THEN Out(Clean(r), up, 500) ELSE Out(r, up, 200)

\* --------------------------------------------------------- subject routes
\* POST /api/subjects
CreateSubject(d, up, tok, t, name, description) ==
  IF AdminGuard(tok) # 0 THEN Out(d, up, AdminGuard(tok))
  ELSE LET r == Run(d, Insert("subjects", {"id", "name", "description"},
                              SubjectRow(SubjectBase + t, name, description), "abort",
                              name = UNDEFS \/ description = UNDEFS))
       IN IF r.err THEN Out(Clean(r), up, 500) ELSE Out(r, up, 201)

\* PUT /api/subjects/:id
UpdateSubject(d, up, tok, id, name, description) ==
  IF AdminGuard(tok) # 0 THEN Out(d, up, AdminGuard(tok))
  ELSE LET s == [Update("subjects", {"name", "description"},
                        [name |-> name, description |-> description], id)
                 EXCEPT !.undef = (name = UNDEFS \/ description = UNDEFS)]
           r == Run(d, s)
       IN IF r.err THEN Out(Clean(r), up, 500) ELSE Out(r, up, 200)

\* DELETE /api/subjects/:id
DeleteSubject(d, up, tok, id) ==
  IF AdminGuard(tok) # 0 THEN Out(d, up, AdminGuard(tok))
  ELSE LET r == Run(d, DeleteId("subjects", id))
       IN IF r.err THEN Out(Clean(r), up, 500) ELSE Out(r, up, 200)

\* ------------------------------------------------------------ file routes
\* decodeFilename: the latin1 bytes of the name read as UTF-8
decodeFilename(name) ==
  CASE name = "ascii.txt" -> "ascii.txt"
    [] name = "utf8-bytes-as-latin1" -> "utf8-name"
    [] OTHER -> "replacement-chars"

\* the INSERT of one of req.files
InsertFile(name, content_id) ==
  Insert("files", {"id", "content_id", "filename", "stored_filename", "mime_type", "size"},
         FileRow(name, content_id, decodeFilename("utf8-bytes-as-latin1"), name, "text/plain", 1),
         "abort", FALSE)

\* the loop that records req.files: names first..last, one INSERT each
RECURSIVE RecordFiles(_, _, _, _)
RecordFiles(d, first, last, content_id) ==
  IF first > last THEN d
  ELSE RecordFiles(Run(d, InsertFile(first, content_id)), first + 1, last, content_id)

\* the same loop when the INSERT of the file named failAt is failed by the
\* environment
RECURSIVE RecordFilesFailing(_, _, _, _, _, _)
RecordFilesFailing(d, first, last, content_id, failAt, fault) ==
  IF first > last THEN d
  ELSE RecordFilesFailing(IF first = failAt
                            THEN RunFailing(d, InsertFile(first, content_id), fault)
                            ELSE Run(d, InsertFile(first, content_id)),
                          first + 1, last, content_id, failAt, fault)

\* POST /api/files/upload; multer has stored n files as first..first+n-1
\* before the callback runs, and removes them itself when it reports an error
UploadFiles(d, up, tok, multerErr, first, n, content_id) ==
  IF authenticateToken(tok) # 0 THEN Out(d, up, authenticateToken(tok))
  ELSE IF multerErr THEN Out(d, up, 400)
  ELSE IF n = 0 THEN Out(d, up, 400)
  ELSE LET stored == first..(first + n - 1)
       IN IF ~Truthy(content_id) THEN Out(d, up, 400)
          ELSE LET r == RecordFiles(d, first, first + n - 1, content_id)
               IN IF r.err THEN Out(Clean(r), up, 500)
                  ELSE Out(r, up \cup stored, 201)

\* POST /api/files/upload of n files when the INSERT of the k-th is failed:
\* the catch unlinks every file of the request and answers 500
UploadFilesFailing(d, up, tok, first, n, content_id, k, fault) ==
  IF authenticateToken(tok) # 0 THEN Out(d, up, authenticateToken(tok))
  ELSE IF n = 0 THEN Out(d, up, 400)
  ELSE IF ~Truthy(content_id) THEN Out(d, up, 400)
  ELSE LET r == RecordFilesFailing(d, first, first + n - 1, content_id, first + k - 1, fault)
       IN IF r.err THEN Out(Clean(r), up, 500)
          ELSE Out(r, up \cup (first..(first + n - 1)), 201)

\* DELETE /api/files/:file_id
DeleteFile(d, up, tok, file_id) ==
  IF authenticateToken(tok) # 0 THEN Out(d, up, authenticateToken(tok))
  ELSE LET found == Get(d.t.files, file_id)
       IN IF found = {} THEN Out(d, up, 404)
          ELSE LET file == CHOOSE f \in found : TRUE
                   content == Get(d.t.content, file.content_id)
               IN IF tok.role # "admin" /\ content = {} THEN Out(d, up, 500)
                  ELSE IF tok.role # "admin" /\ (\A c \in content : c.author_id # tok.id)
                         THEN Out(d, up, 403)
                  ELSE LET up1 == up \ {file.stored_filename}
                           r == Run(d, DeleteId("files", file_id))
                       IN IF r.err THEN Out(Clean(r), up1, 500) ELSE Out(r, up1, 200)

\* --------------------------------------------------------- content routes
RECURSIVE jsonItems(_)
jsonItems(v) ==
  IF v = <<>> THEN ""
  ELSE IF Len(v) = 1 THEN "\"" \o v[1] \o "\""
  ELSE "\"" \o v[1] \o "\"," \o jsonItems(Tail(v))

jsonStringify(v) == "[" \o jsonItems(v) \o "]"

\* urls of a request body: absent, an array, or some other JSON value
NoUrls == [k |-> "undefined", v |-> <<>>]
UrlArray(v) == [k |-> "array", v |-> v]

ContentBody(title, body, type, subject_id, urls) ==
  [title |-> title, body |-> body, type |-> type, subject_id |-> subject_id, urls |-> urls]

\* POST /api/content
CreateContent(d, up, tok, t, b) ==
  IF authenticateToken(tok) # 0 THEN Out(d, up, authenticateToken(tok))
  ELSE LET user == Get(d.t.users, tok.id)
           mediaUrlsJson == IF b.urls.k = "array" THEN jsonStringify(b.urls.v) ELSE "[]"
       IN IF tok.role = "teacher" /\ Truthy(b.subject_id) /\ user = {} THEN Out(d, up, 500)
          ELSE IF tok.role = "teacher" /\ Truthy(b.subject_id)
                  /\ (\A u \in user : b.subject_id # u.assigned_subject_id) THEN Out(d, up, 403)
          ELSE LET r == Run(d, Insert("content", {"id", "title", "body", "type", "subject_id",
                                                  "author_id", "media_urls"},
                                      ContentRow(t, OrNullS(b.title), OrNullS(b.body), OrNullS(b.type),
                                                 OrNull(b.subject_id), OrNull(tok.id), mediaUrlsJson),
                                      "abort", FALSE))
               IN IF r.err THEN Out(Clean(r), up, 500) ELSE Out(r, up, 201)

ContentUpdateCols(b) ==
  (IF b.title # UNDEFS THEN {"title"} ELSE {})
  \cup (IF b.body # UNDEFS THEN {"body"} ELSE {})
  \cup (IF b.type # UNDEFS THEN {"type"} ELSE {})
  \cup (IF b.subject_id # UNDEF THEN {"subject_id"} ELSE {})
  \cup (IF b.urls.k # "undefined" THEN {"media_urls"} ELSE {})
  \cup {"updated_at"}

\* PUT /api/content/:id
UpdateContent(d, up, tok, contentId, b) ==
  IF authenticateToken(tok) # 0 THEN Out(d, up, authenticateToken(tok))
  ELSE LET found == Get(d.t.content, contentId)
       IN IF found = {} THEN Out(d, up, 404)
          ELSE IF tok.role # "admin" /\ (\A c \in found : c.author_id # tok.id) THEN Out(d, up, 403)
          ELSE LET set == [title |-> b.title, body |-> b.body, type |-> b.type,
                           subject_id |-> b.subject_id,
                           media_urls |-> IF b.urls.k = "array" THEN jsonStringify(b.urls.v) ELSE "[]",
                           updated_at |-> "CURRENT_TIMESTAMP"]
                   r == Run(d, Update("content", ContentUpdateCols(b), set, contentId))
               IN IF r.err THEN Out(Clean(r), up, 500) ELSE Out(r, up, 200)

\* DELETE /api/content/:id
DeleteContent(d, up, tok, contentId) ==
  IF authenticateToken(tok) # 0 THEN Out(d, up, authenticateToken(tok))
  ELSE LET found == Get(d.t.content, contentId)
       IN IF found = {} THEN Out(d, up, 404)
          ELSE IF tok.role # "admin" /\ (\A c \in found : c.author_id # tok.id) THEN Out(d, up, 403)
          ELSE LET files == {f \in d.t.files : f.content_id = contentId}
                   up1 == up \ {f.stored_filename : f \in files}
                   r == Run(d, DeleteId("content", contentId))
               IN IF r.err THEN Out(Clean(r), up1, 500) ELSE Out(r, up1, 200)

\* ---------------------------------------------------------- public routes
\* the routes below are registered without authenticateToken: whatever the
\* authorization header holds, the handler runs
noMiddlewareAuthenticated(tok) == authenticateToken(tok)

noMiddleware(tok) == 0

\* res.json bodies: the rows sent and, for GET /api/content, the pagination
Pagination(page, limit, total, totalPages, hasMore) ==
  [page |-> page, limit |-> limit, total |-> total, totalPages |-> totalPages,
   hasMore |-> hasMore]
Body(data, pagination) == [data |-> data, pagination |-> pagination]
NoBody == Body(<<>>, Pagination(0, 0, 0, 0, FALSE))
Rows(data) == Body(data, Pagination(0, 0, 0, 0, FALSE))
Reply(status, body) == [status |-> status, body |-> body]

\* const { password, ...userWithoutPassword } = user
withoutPasswordKept(user) == user

withoutPassword(user) == [f \in DOMAIN user \ {"password"} |-> user[f]]

\* the body of a user route that answers with the row it selects again by id:
\* sent when the handler got as far as the status `ok`
UserSent(d, id, status, ok) ==
  IF status = ok /\ Get(d.t.users, id) # {}
    THEN Rows(<<withoutPassword(CHOOSE u \in Get(d.t.users, id) : TRUE)>>)
    ELSE NoBody

\* res.json({ user: userWithoutPassword, token }) of a login
LoginSent(d, username, status) ==
  IF status = 200
    THEN LET user == CHOOSE u \in d.t.users : u.username = username
         IN Rows(<<withoutPassword(user), jwtSign(user)>>)
    ELSE NoBody

\* JSON.parse of a stored media_urls text; text that does not parse gives []
UrlLists == {<<>>, <<"u">>}
jsonParse(text) ==
  IF \E v \in UrlLists : jsonStringify(v) = text
    THEN CHOOSE v \in UrlLists : jsonStringify(v) = text
    ELSE <<>>

\* SELECT c.*, u.username as author_name ... LEFT JOIN users u ON c.author_id = u.id,
\* then media_urls parsed
WithAuthor(c, users) ==
  LET u == {x \in users : x.id = c.author_id}
  IN [id |-> c.id, title |-> c.title, body |-> c.body, type |-> c.type,
      subject_id |-> c.subject_id, author_id |-> c.author_id, created_at |-> c.created_at,
      media_urls |-> jsonParse(c.media_urls),
      author_name |-> IF u = {} THEN NULLS ELSE (CHOOSE x \in u : TRUE).username]

\* ORDER BY c.created_at DESC
RECURSIVE OrderByCreatedAtDesc(_)
OrderByCreatedAtDesc(S) ==
  IF S = {} THEN <<>>
  ELSE LET x == CHOOSE y \in S : \A z \in S : z.created_at <= y.created_at
       IN <<x>> \o OrderByCreatedAtDesc(S \ {x})

\* ORDER BY uploaded_at ASC: records are inserted in the order of their ids
RECURSIVE OrderByIdAsc(_)
OrderByIdAsc(S) ==
  IF S = {} THEN <<>>
  ELSE LET x == CHOOSE y \in S : \A z \in S : y.id <= z.id
       IN <<x>> \o OrderByIdAsc(S \ {x})

\* query-string values are sequences of characters; <<UNDEFS>> is a parameter
\* the request does not carry
DigitChars == <<"0", "1", "2", "3", "4", "5", "6", "7", "8", "9">>

\* the text of a non-negative integer, as the client writes it in the URL
RECURSIVE Decimal(_)
Decimal(n) ==
  IF n < 10 THEN <<DigitChars[n + 1]>>
  ELSE Decimal(n \div 10) \o <<DigitChars[(n % 10) + 1]>>

\* the number the longest prefix of digits denotes, NaN when there is none
RECURSIVE ParseDigits(_, _, _)
ParseDigits(s, acc, seen) ==
  IF s # <<>> /\ \E i \in DOMAIN DigitChars : DigitChars[i] = Head(s)
    THEN ParseDigits(Tail(s),
                     acc * 10 + (CHOOSE i \in DOMAIN DigitChars : DigitChars[i] = Head(s)) - 1,
                     TRUE)
    ELSE IF seen THEN acc ELSE NaN

\* parseInt(text, 10): leading white space skipped, an optional sign, then the
\* digits up to the first character that is none
RECURSIVE parseInt(_)
parseInt(s) ==
  IF s # <<>> /\ Head(s) = " " THEN parseInt(Tail(s))
  ELSE LET signed == s # <<>> /\ Head(s) \in {"-", "+"}
           v == ParseDigits(IF signed THEN Tail(s) ELSE s, 0, FALSE)
       IN IF v # NaN /\ signed /\ Head(s) = "-" THEN 0 - v ELSE v

\* const offset = (pageNum - 1) * limitNum
offsetFromPage(pageNum, limitNum) == pageNum * limitNum

offset(pageNum, limitNum) == (pageNum - 1) * limitNum

\* Math.ceil(total / limitNum)
Ceil(a, b) == (a + b - 1) \div b

\* ORDER BY name, for the subject names that occur
NameRank(name) ==
  CASE name = "created" -> 1
    [] name = "renamed" -> 2
    [] name = "subject" -> 3
    [] OTHER -> 4

RECURSIVE OrderByName(_)
OrderByName(S) ==
  IF S = {} THEN <<>>
  ELSE LET x == CHOOSE y \in S : \A z \in S : NameRank(y.name) <= NameRank(z.name)
       IN <<x>> \o OrderByName(S \ {x})

\* GET /api/users: SELECT * FROM users ORDER BY created_at DESC; a user's id
\* is the time of its registration
GetUsers(d, tok) ==
  IF authenticateToken(tok) # 0 THEN Reply(authenticateToken(tok), NoBody)
  ELSE LET users == OrderByIdAsc(d.t.users)
       IN Reply(200, Rows([i \in DOMAIN users |-> withoutPassword(users[Len(users) + 1 - i])]))

\* GET /api/users/:id
GetUserById(d, tok, id) ==
  IF authenticateToken(tok) # 0 THEN Reply(authenticateToken(tok), NoBody)
  ELSE IF Get(d.t.users, id) = {} THEN Reply(404, NoBody)
  ELSE Reply(200, UserSent(d, id, 200, 200))

\* GET /api/subjects
GetSubjects(d, tok) ==
  IF noMiddleware(tok) # 0 THEN Reply(noMiddleware(tok), NoBody)
  ELSE Reply(200, Rows(OrderByName(d.t.subjects)))

\* const { type, subject_id, page = '1', limit = '20' } = req.query, then
\* pageNum and limitNum parsed
ParseQuery(q) ==
  [type |-> q.type, subject_id |-> q.subject_id,
   page |-> parseInt(IF q.page = <<UNDEFS>> THEN <<"1">> ELSE q.page),
   limit |-> parseInt(IF q.limit = <<UNDEFS>> THEN <<"2", "0">> ELSE q.limit)]

\* GET /api/content?type=&subject_id=&page=&limit=, q the parsed query.  Every
\* comparison with NaN is false, so NaN passes the validation; the count is
\* then selected, and LIMIT ? OFFSET ? bound to NaN (NULL) makes the second
\* select throw, which the handler answers with 500.
GetContent(d, tok, q) ==
  IF noMiddleware(tok) # 0 THEN Reply(noMiddleware(tok), NoBody)
  ELSE IF \/ (q.page # NaN /\ q.page < 1)
          \/ (q.limit # NaN /\ (q.limit < 1 \/ q.limit > 100)) THEN Reply(400, NoBody)
  ELSE IF q.page = NaN \/ q.limit = NaN THEN Reply(500, NoBody)
  ELSE LET off == offset(q.page, q.limit)
           matching == {c \in d.t.content :
                          /\ TruthyS(q.type) => c.type = q.type
                          /\ Truthy(q.subject_id) => c.subject_id = q.subject_id}
           total == Cardinality(matching)
           sorted == OrderByCreatedAtDesc(matching)
           last == IF off + q.limit < total THEN off + q.limit ELSE total
           content == [i \in 1..(IF last > off THEN last - off ELSE 0) |->
                         WithAuthor(sorted[off + i], d.t.users)]
       IN Reply(200, Body(content,
                          Pagination(q.page, q.limit, total, Ceil(total, q.limit),
                                     off + Len(content) < total)))

\* GET /api/content/:id
GetContentById(d, tok, id) ==
  IF noMiddleware(tok) # 0 THEN Reply(noMiddleware(tok), NoBody)
  ELSE LET found == Get(d.t.content, id)
       IN IF found = {} THEN Reply(404, NoBody)
          ELSE Reply(200, Rows(<<WithAuthor(CHOOSE c \in found : TRUE, d.t.users)>>))

\* GET /api/files/content/:content_id
GetFilesForContent(d, tok, content_id) ==
  IF noMiddleware(tok) # 0 THEN Reply(noMiddleware(tok), NoBody)
  ELSE LET files == OrderByIdAsc({f \in d.t.files : f.content_id = content_id})
       IN Reply(200, Rows([i \in 1..Len(files) |->
                             [id |-> files[i].id, filename |-> files[i].filename,
                              mime_type |-> files[i].mime_type, size |-> files[i].size]]))

\* GET /api/files/download/:file_id: the body is the stored file streamed
DownloadFile(d, up, tok, file_id) ==
  IF noMiddleware(tok) # 0 THEN Reply(noMiddleware(tok), NoBody)
  ELSE LET found == Get(d.t.files, file_id)
       IN IF found = {} THEN Reply(404, NoBody)
          ELSE LET file == CHOOSE f \in found : TRUE
               IN IF file.stored_filename \notin up THEN Reply(404, NoBody)
                  ELSE Reply(200, Rows(<<file>>))

\* ------------------------------------------------------------------ search
\* the characters of the texts the tables hold, letters in lower case as LIKE
\* compares them
Spell(text) ==
  CASE text = "title" -> <<"t", "i", "t", "l", "e">>
    [] text = "body" -> <<"b", "o", "d", "y">>
    [] text = "subject" -> <<"s", "u", "b", "j", "e", "c", "t">>
    [] text = "seeded" -> <<"s", "e", "e", "d", "e", "d">>
    [] text = "admin" -> <<"a", "d", "m", "i", "n">>
    [] text = "Administrator"
         -> <<"a", "d", "m", "i", "n", "i", "s", "t", "r", "a", "t", "o", "r">>
    [] text = NULLS -> <<>>

\* q.trim()
RECURSIVE trim(_)
trim(s) ==
  IF s # <<>> /\ Head(s) = " " THEN trim(Tail(s))
  ELSE IF s # <<>> /\ s[Len(s)] = " " THEN trim(SubSeq(s, 1, Len(s) - 1))
  ELSE s

\* text LIKE '%term%'; NULL is like nothing
Like(text, term) ==
  /\ text # NULLS
  /\ \E i \in 1..(Len(Spell(text)) - Len(term) + 1) :
       SubSeq(Spell(text), i, i + Len(term) - 1) = term

\* LIMIT ?: the first n rows, every row when n is negative
Limit(rows, n) == IF n < 0 \/ n >= Len(rows) THEN rows ELSE SubSeq(rows, 1, n)

\* ORDER BY username ASC; the user names are "admin", "u1", "u2"
RECURSIVE OrderByUsername(_)
OrderByUsername(S) ==
  IF S = {} THEN <<>>
  ELSE LET x == CHOOSE y \in S :
                  \A z \in S : y.username = "admin" \/ (z.username # "admin" /\ y.id <= z.id)
       IN <<x>> \o OrderByUsername(S \ {x})

\* req.query of GET /api/search
SearchQuery(q, type, limit) == [q |-> q, type |-> type, limit |-> limit]
Results(content, subjects, users) ==
  [content |-> content, subjects |-> subjects, users |-> users,
   total |-> Len(content) + Len(subjects) + Len(users)]

\* GET /api/search?q=&type=&limit=.  The route is registered without
\* authenticateToken, the only place that assigns req.user.
GetSearch(d, tok, query) ==
  IF noMiddleware(tok) # 0 THEN Reply(noMiddleware(tok), NoBody)
  ELSE IF query.q = <<UNDEFS>> \/ query.q = <<>> \/ Len(trim(query.q)) = 0
    THEN Reply(200, Results(<<>>, <<>>, <<>>))
  ELSE
    LET user == NoToken
        term == trim(query.q)
        parsed == parseInt(IF query.limit = <<UNDEFS>> THEN <<"2", "0">> ELSE query.limit)
        number == IF parsed = NaN \/ parsed = 0 THEN 20 ELSE parsed
        searchLimit == IF number < 100 THEN number ELSE 100
        all == ~TruthyS(query.type) \/ query.type = "all"
        content ==
          IF all \/ query.type = "content"
            THEN Limit(OrderByCreatedAtDesc({c \in d.t.content :
                                               Like(c.title, term) \/ Like(c.body, term)}),
                       searchLimit)
            ELSE <<>>
        subjects ==
          IF all \/ query.type = "subjects"
            THEN Limit(OrderByName({r \in d.t.subjects :
                                      Like(r.name, term) \/ Like(r.description, term)}),
                       searchLimit)
            ELSE <<>>
        users ==
          IF (all \/ query.type = "users") /\ user.kind = "valid" /\ user.role = "admin"
            THEN Limit(OrderByUsername({u \in d.t.users :
                                          Like(u.username, term) \/ Like(u.full_name, term)}),
                       searchLimit)
            ELSE <<>>
    IN Reply(200,
             Results([i \in DOMAIN content |->
                        [id |-> content[i].id, title |-> content[i].title,
                         body |-> content[i].body, type |-> content[i].type,
                         created_at |-> content[i].created_at]],
                     subjects,
                     [i \in DOMAIN users |->
                        [id |-> users[i].id, username |-> users[i].username,
                         full_name |-> users[i].full_name, role |-> users[i].role,
                         is_active |-> users[i].is_active]]))

\* -------------------------------------------------------- database routes
\* GET /api/database/stats
DatabaseStats(d, up, tok) ==
  IF AdminGuard(tok) # 0 THEN Out(d, up, AdminGuard(tok)) ELSE Out(d, up, 200)

RECURSIVE SetToSeq(_)
SetToSeq(S) ==
  IF S = {} THEN <<>>
  ELSE LET x == CHOOSE y \in S : TRUE IN <<x>> \o SetToSeq(S \ {x})

\* the JSON document of export / import
Doc(version, users, subjects, content, files) ==
  [version |-> version, users |-> users, subjects |-> subjects, content |-> content,
   files |-> files]
NoDoc == Doc(FALSE, <<>>, <<>>, <<>>, <<>>)

DocUser(u) ==
  [id |-> u.id, username |-> u.username, password |-> UNDEFS, full_name |-> u.full_name,
   role |-> u.role, subject_id |-> UNDEF, active |-> UNDEF, created_at |-> "ts"]
DocSubject(r) == [id |-> r.id, name |-> r.name, description |-> r.description, created_at |-> "ts"]
DocContent(c) ==
  [id |-> c.id, title |-> c.title, body |-> c.body, type |-> c.type, subject_id |-> c.subject_id,
   author_id |-> c.author_id, media_urls |-> c.media_urls, created_at |-> c.created_at,
   updated_at |-> "ts"]
DocFile(f) ==
  [id |-> f.id, content_id |-> f.content_id, filename |-> f.filename,
   stored_filename |-> f.stored_filename, mime_type |-> f.mime_type, size |-> f.size,
   uploaded_at |-> "ts"]

ExportUsersColumns == {"id", "username", "full_name", "role", "subject_id", "active", "created_at"}

\* GET /api/database/export: status and body
ExportDatabase(d, tok) ==
  IF AdminGuard(tok) # 0 THEN [status |-> AdminGuard(tok), body |-> NoDoc]
  ELSE IF ~CanSelect("users", ExportUsersColumns) THEN [status |-> 500, body |-> NoDoc]
  ELSE [status |-> 200,
        body |-> Doc(TRUE,
                     [i \in 1..Cardinality(d.t.users) |-> DocUser(SetToSeq(d.t.users)[i])],
                     [i \in 1..Cardinality(d.t.subjects) |-> DocSubject(SetToSeq(d.t.subjects)[i])],
                     [i \in 1..Cardinality(d.t.content) |-> DocContent(SetToSeq(d.t.content)[i])],
                     [i \in 1..Cardinality(d.t.files) |-> DocFile(SetToSeq(d.t.files)[i])])]

ImportUsersColumns == {"id", "username", "password", "full_name", "role", "subject_id",
                       "active", "created_at"}

\* the statements of the import, in program order, after BEGIN
ImportStatements(data) ==
  LET us == SelectSeq(data.users, LAMBDA u : u.username # "admin")
  IN <<DeleteAll("files"), DeleteAll("content"), DeleteAll("subjects"), DeleteNotAdmin>>
     \o [i \in 1..Len(data.subjects) |->
           LET r == data.subjects[i]
           IN Insert("subjects", {"id", "name", "description", "created_at"},
                     SubjectRow(r.id, r.name, r.description), "replace",
                     r.name = UNDEFS \/ r.description = UNDEFS \/ r.created_at = UNDEFS)]
     \o [i \in 1..Len(us) |->
           LET u == us[i]
           IN Insert("users", ImportUsersColumns,
                     UserRow(u.id, u.username, u.password, u.full_name, u.role), "replace",
                     u.password = UNDEFS \/ u.subject_id = UNDEF \/ u.active = UNDEF
                       \/ u.created_at = UNDEFS)]
     \o [i \in 1..Len(data.content) |->
           LET c == data.content[i]
           IN Insert("content", {"id", "title", "body", "type", "subject_id", "author_id",
                                 "created_at", "updated_at"},
                     [ContentRow(c.id, c.title, c.body, c.type, c.subject_id, c.author_id, "[]")
                        EXCEPT !.created_at = c.created_at],
                     "replace", c.created_at = UNDEF \/ c.updated_at = UNDEFS)]
     \o [i \in 1..Len(data.files) |->
           LET f == data.files[i]
           IN Insert("files", {"id", "content_id", "filename", "stored_filename", "mime_type",
                               "size", "uploaded_at"},
                     FileRow(f.id, f.content_id, f.filename, f.stored_filename, f.mime_type, f.size),
                     "replace", f.uploaded_at = UNDEFS)]
     \o <<Commit>>

\* POST /api/database/import
ImportDatabase(d, up, tok, data) ==
  IF AdminGuard(tok) # 0 THEN Out(d, up, AdminGuard(tok))
  ELSE IF ~data.version THEN Out(d, up, 400)
  ELSE LET b == Run(d, Begin)
       IN IF b.err THEN Out(Clean(b), up, 500)
          ELSE LET r == RunAll(b, ImportStatements(data))
               IN IF r.err THEN Out(Clean(Run(Clean(r), Rollback)), up, 500)
                  ELSE Out(r, up, 200)

\* POST /api/database/clear
ClearDatabase(d, up, tok) ==
  IF AdminGuard(tok) # 0 THEN Out(d, up, AdminGuard(tok))
  ELSE LET b == Run(d, Begin)
       IN IF b.err THEN Out(Clean(b), up, 500)
          ELSE LET up1 == up \ {f.stored_filename : f \in b.t.files}
                   r == RunAll(b, <<DeleteAll("files"), DeleteAll("content"),
                                    DeleteAll("subjects"), DeleteNotAdmin, Commit>>)
               IN IF r.err THEN Out(Clean(Run(Clean(r), Rollback)), up1, 500)
                  ELSE Out(r, up1, 200)

\* ------------------------------------------------------------ the server
Cur == [t |-> db, file |-> dbFile, fk |-> foreign_keys, txn |-> FALSE, snap |-> db,
        err |-> FALSE, sync |-> TRUE]

\* ------------------------------------------------------------------ client
\* fetchWithRetry(url, options, maxRetries, baseDelay).  pc: "loop" at the
\* test i < maxRetries, "fetch" awaiting fetch, "wait" awaiting the timeout,
\* "returned" and "thrown" once the promise is settled.  An outcome is the
\* status of the response, or NetworkError when fetch rejected.
NetworkError == 0
FetchFailed == -3
Call(maxRetries, baseDelay, i, lastError, pc, outcomes, delays, result) ==
  [maxRetries |-> maxRetries, baseDelay |-> baseDelay, i |-> i, lastError |-> lastError,
   pc |-> pc, outcomes |-> outcomes, delays |-> delays, result |-> result]
NoCall == Call(0, 0, 0, NULL, "none", <<>>, <<>>, NULL)

\* response.ok
ok(status) == status >= 200 /\ status <= 299

\* const delay = baseDelay * Math.pow(2, i)
delayFixed(baseDelay, i) == baseDelay

delay(baseDelay, i) == baseDelay * 2^i

\* req.query of GET /api/content: page and limit are text in the request and
\* numbers once parsed; page and limit default to '1' and '20'
Query(type, subject_id, page, limit) ==
  [type |-> type, subject_id |-> subject_id, page |-> page, limit |-> limit]
NoQuery == Query(UNDEFS, UNDEF, 1, 20)
NoRaw == Query(UNDEFS, UNDEF, <<UNDEFS>>, <<UNDEFS>>)

Request(op, tok, id, role, is_active) ==
  [op |-> op, tok |-> tok, id |-> id, role |-> role, is_active |-> is_active,
   username |-> UNDEFS, password |-> UNDEFS, newPassword |-> UNDEFS, query |-> NoQuery,
   raw |-> NoRaw]

\* the same with body.username and body.password (currentPassword) kept
Named(r, username, password) == [r EXCEPT !.username = username, !.password = password]

Init ==
  /\ db = initDatabase.t
  /\ dbFile = initDatabase.file
  /\ foreign_keys = initDatabase.fk
  /\ writesSynced = initDatabase.sync
  /\ uploads = {}
  /\ now = 1
  /\ nextFile = 1
  /\ issued = {}
  /\ exported = NoDoc
  /\ req = Request("listen", NoToken, NULL, UNDEFS, UNDEF)
  /\ resp = [status |-> 0, body |-> NoBody]
  /\ steps = 0
  /\ listening = TRUE
  /\ initialized = TRUE
  /\ call = NoCall

\* one request answered: the handler's result becomes the new state
AnswerWith(r, out, counted, body) ==
  LET changed == out.d.t # db \/ out.d.file # dbFile \/ out.up # uploads
  IN /\ listening /\ initialized
     /\ (counted /\ changed) => steps < MaxSteps
     /\ UNCHANGED <<listening, initialized, call>>
     /\ db' = out.d.t
     /\ dbFile' = out.d.file
     /\ foreign_keys' = out.d.fk
     /\ writesSynced' = out.d.sync
     /\ uploads' = out.up
     /\ req' = r
     /\ resp' = [status |-> out.status, body |-> body]
     /\ steps' = IF counted /\ changed THEN steps + 1 ELSE steps

Answer(r, out, counted) == AnswerWith(r, out, counted, NoBody)

\* ------------------------------------------------------------ inputs
Tokens == {NoToken, BadToken} \cup issued
Usernames == {"admin", "u1"}
Passwords == {"admin123", "p2"}
RegisterRoles == {UNDEFS, "teacher"}
UserBodies ==
  { UserBody("u2", UNDEFS, UNDEFS, UNDEFS, UNDEF, UNDEFS, UNDEF),
    UserBody("admin", UNDEFS, UNDEFS, UNDEFS, UNDEF, UNDEFS, UNDEF),
    UserBody(UNDEFS, "p2", UNDEFS, UNDEFS, UNDEF, UNDEFS, UNDEF),
    UserBody(UNDEFS, UNDEFS, "name", UNDEFS, UNDEF, UNDEFS, UNDEF),
    UserBody(UNDEFS, UNDEFS, UNDEFS, "pic", UNDEF, UNDEFS, UNDEF),
    UserBody(UNDEFS, UNDEFS, UNDEFS, UNDEFS, 1, UNDEFS, UNDEF),
    UserBody(UNDEFS, UNDEFS, UNDEFS, UNDEFS, UNDEF, "admin", UNDEF),
    UserBody(UNDEFS, UNDEFS, "name", UNDEFS, UNDEF, "", UNDEF),
    UserBody(UNDEFS, UNDEFS, UNDEFS, UNDEFS, UNDEF, UNDEFS, 0),
    UserBody(UNDEFS, UNDEFS, UNDEFS, UNDEFS, UNDEF, UNDEFS, UNDEF) }
\* an admin disabling an account, or lowering its role
RevokingBodies ==
  { UserBody(UNDEFS, UNDEFS, UNDEFS, UNDEFS, UNDEF, UNDEFS, 0),
    UserBody(UNDEFS, UNDEFS, UNDEFS, UNDEFS, UNDEF, "user", UNDEF) }
FewUserBodies ==
  { UserBody(UNDEFS, UNDEFS, "name", UNDEFS, UNDEF, UNDEFS, UNDEF),
    UserBody(UNDEFS, UNDEFS, UNDEFS, UNDEFS, 1, "teacher", UNDEF) }
UserIds == Ids(db.users) \cup {GhostId}
SubjectIds == Ids(db.subjects) \cup {GhostId}
ContentIds == Ids(db.content) \cup {GhostId}
FileIds == Ids(db.files) \cup {GhostId}
ContentBodies ==
  { ContentBody("title", "body", "news", UNDEF, NoUrls),
    ContentBody("title", "body", "news", 1, UrlArray(<<"u">>)) }
ContentUpdates ==
  { ContentBody("title2", UNDEFS, UNDEFS, UNDEF, NoUrls),
    ContentBody(UNDEFS, UNDEFS, UNDEFS, 1, NoUrls),
    ContentBody(UNDEFS, UNDEFS, UNDEFS, NULL, UrlArray(<<>>)) }
FewContentUpdates == { ContentBody("title2", UNDEFS, UNDEFS, UNDEF, NoUrls) }
ImportDocs ==
  { NoDoc,
    Doc(TRUE, <<>>, <<DocSubject(SubjectRow(1, "subject", "seeded"))>>, <<>>, <<>>),
    Doc(TRUE, <<DocUser(UserRow(1, "u1", NULLS, NULLS, "user"))>>, <<>>, <<>>, <<>>) }
  \cup (IF exported.version THEN {exported} ELSE {})

Queries ==
  { Query(type, subject_id, Decimal(page), Decimal(limit)) :
      type \in {UNDEFS, "news"}, subject_id \in {UNDEF, 1},
      page \in 0..MaxPage, limit \in (0..MaxLimit) \cup {101} }

\* page and limit as a client can write them: absent, empty, signed, padded,
\* fractional, followed by letters, or no number at all
QueryTexts ==
  { <<UNDEFS>>, <<>>, <<"1">>, <<"2">>, <<"0">>, <<"-", "1">>, <<"+", "1">>, <<" ", "2">>,
    <<"1", ".", "5">>, <<"2", "x">>, <<"a">>, <<"1", "0", "0">>, <<"1", "0", "1">> }

\* one of the two parameters in every shape, the other valid, absent or no number
TextQueries ==
  { Query("news", UNDEF, page, limit) : page \in QueryTexts, limit \in {<<UNDEFS>>, <<"1">>, <<"a">>} }
  \cup { Query("news", UNDEF, page, limit) : page \in {<<UNDEFS>>, <<"2">>, <<"a">>}, limit \in QueryTexts }

\* the search terms, the types and the limits asked for, one varied at a time
SearchQueries ==
  { SearchQuery(q, UNDEFS, <<UNDEFS>>) :
      q \in {<<UNDEFS>>, <<>>, <<" ">>, <<"t">>, <<" ", "a", " ">>, <<"z">>, <<"m", "i">>} }
  \cup { SearchQuery(<<"t">>, type, limit) :
           type \in {"all", "content", "subjects", "users", "files"},
           limit \in {<<UNDEFS>>, <<"1">>} }
  \cup { SearchQuery(<<"t">>, UNDEFS, limit) :
           limit \in {<<"1">>, <<"2">>, <<"0">>, <<"-", "1">>, <<"a">>, <<"1", "0", "1">>} }

\* ----------------------------------------------------------- the requests
\* T: the tokens presented; counted: the request draws on the budget MaxSteps
LoginAct ==
  \E username \in Usernames, password \in Passwords :
    LET status == LoginStatus(Cur, username, password)
        user == CHOOSE u \in db.users : u.username = username
    IN /\ issued' = IF status = 200 THEN issued \cup {jwtSign(user)} ELSE issued
       /\ AnswerWith(Named(Request("login", NoToken, NULL, UNDEFS, UNDEF), username, password),
                     Out(Cur, uploads, status), FALSE, LoginSent(Cur, username, status))
       /\ UNCHANGED <<now, nextFile, exported>>

\* R: the roles asked for
RegisterAsAct(T, R, counted) ==
  \E tok \in T, t \in now..MaxTime, role \in R :
    /\ LET out == RegisterUser(Cur, uploads, tok, t, "u1", "p2", UNDEFS, role)
       IN AnswerWith(Named(Request("register", tok, NULL, role, UNDEF), "u1", "p2"),
                     out, counted, UserSent(out.d, t, out.status, 201))
    /\ now' = IF resp'.status = 201 THEN t ELSE now
    /\ UNCHANGED <<nextFile, issued, exported>>

\* N: the new passwords asked for
RegisterAct(T, counted) == RegisterAsAct(T, RegisterRoles, counted)

ChangePasswordAct(T, N, counted) ==
  \E tok \in T, cur \in Passwords, new \in N :
    /\ Answer([Named(Request("change-password", tok, NULL, UNDEFS, UNDEF), UNDEFS, cur)
                 EXCEPT !.newPassword = new],
              ChangePassword(Cur, uploads, tok, cur, new), counted)
    /\ UNCHANGED <<now, nextFile, issued, exported>>

UpdateUserAct(T, B) ==
  \E tok \in T, id \in UserIds, b \in B :
    /\ LET out == UpdateUser(Cur, uploads, tok, id, b)
       IN AnswerWith(Named(Request("updateUser", tok, id, b.role, b.is_active),
                           b.username, b.password),
                     out, TRUE, UserSent(out.d, id, out.status, 200))
    /\ UNCHANGED <<now, nextFile, issued, exported>>

DeleteUserAct(T) ==
  \E tok \in T, id \in UserIds :
    /\ Answer(Request("deleteUser", tok, NULL, UNDEFS, UNDEF), DeleteUser(Cur, uploads, tok, id), TRUE)
    /\ UNCHANGED <<now, nextFile, issued, exported>>

CreateSubjectAct(T) ==
  \E tok \in T, t \in now..MaxTime, description \in {"about", UNDEFS} :
    /\ Answer(Request("createSubject", tok, NULL, UNDEFS, UNDEF),
              CreateSubject(Cur, uploads, tok, t, "created", description), TRUE)
    /\ now' = IF resp'.status = 201 THEN t ELSE now
    /\ UNCHANGED <<nextFile, issued, exported>>

UpdateSubjectAct(T) ==
  \E tok \in T, id \in SubjectIds :
    /\ Answer(Request("updateSubject", tok, NULL, UNDEFS, UNDEF),
              UpdateSubject(Cur, uploads, tok, id, "renamed", "about"), TRUE)
    /\ UNCHANGED <<now, nextFile, issued, exported>>

DeleteSubjectAct(T) ==
  \E tok \in T, id \in SubjectIds :
    /\ Answer(Request("deleteSubject", tok, NULL, UNDEFS, UNDEF),
              DeleteSubject(Cur, uploads, tok, id), TRUE)
    /\ UNCHANGED <<now, nextFile, issued, exported>>

UploadFilesAct(T, counted) ==
  \E tok \in T, multerErr \in BOOLEAN, n \in 0..2, content_id \in ContentIds \cup {UNDEF} :
    /\ nextFile + n - 1 <= MaxFiles
    /\ multerErr => n = 0
    /\ n = 0 => content_id = UNDEF
    /\ Answer(Request("upload", tok, NULL, UNDEFS, UNDEF),
              UploadFiles(Cur, uploads, tok, multerErr, nextFile, n, content_id), counted)
    /\ nextFile' = IF resp'.status = 201 THEN nextFile + n ELSE nextFile
    /\ UNCHANGED <<now, issued, exported>>

\* an upload of n files during which the write of the k-th record fails
UploadFilesFailingAct(T) ==
  \E tok \in T, n \in 1..2, k \in 1..2, fault \in {"run", "save"}, content_id \in ContentIds :
    /\ k <= n
    /\ nextFile + n - 1 <= MaxFiles
    /\ Answer(Request("upload", tok, k, UNDEFS, UNDEF),
              UploadFilesFailing(Cur, uploads, tok, nextFile, n, content_id, k, fault), FALSE)
    /\ nextFile' = IF db' # db THEN nextFile + n ELSE nextFile
    /\ UNCHANGED <<now, issued, exported>>

DeleteFileAct(T) ==
  \E tok \in T, id \in FileIds :
    /\ Answer(Request("deleteFile", tok, id, UNDEFS, UNDEF), DeleteFile(Cur, uploads, tok, id), TRUE)
    /\ UNCHANGED <<now, nextFile, issued, exported>>

CreateContentAct(T, counted) ==
  \E tok \in T, t \in now..MaxTime, b \in ContentBodies :
    /\ Answer(Request("createContent", tok, NULL, UNDEFS, UNDEF),
              CreateContent(Cur, uploads, tok, t, b), counted)
    /\ now' = IF resp'.status = 201 THEN t ELSE now
    /\ UNCHANGED <<nextFile, issued, exported>>

UpdateContentAct(T, B) ==
  \E tok \in T, id \in ContentIds, b \in B :
    /\ Answer(Request("updateContent", tok, id, UNDEFS, UNDEF),
              UpdateContent(Cur, uploads, tok, id, b), TRUE)
    /\ UNCHANGED <<now, nextFile, issued, exported>>

DeleteContentAct(T) ==
  \E tok \in T, id \in ContentIds :
    /\ Answer(Request("deleteContent", tok, id, UNDEFS, UNDEF),
              DeleteContent(Cur, uploads, tok, id), TRUE)
    /\ UNCHANGED <<now, nextFile, issued, exported>>

DatabaseStatsAct(T) ==
  \E tok \in T :
    /\ Answer(Request("stats", tok, NULL, UNDEFS, UNDEF), DatabaseStats(Cur, uploads, tok), TRUE)
    /\ UNCHANGED <<now, nextFile, issued, exported>>

ExportDatabaseAct(T) ==
  \E tok \in T :
    LET e == ExportDatabase(Cur, tok)
    IN /\ Answer(Request("export", tok, NULL, UNDEFS, UNDEF), Out(Cur, uploads, e.status), TRUE)
       /\ exported' = IF e.status = 200 THEN e.body ELSE exported
       /\ UNCHANGED <<now, nextFile, issued>>

\* req.id: 1 when the document carries a version, 2 when it is the exported one
ImportDatabaseAct(T) ==
  \E tok \in T, data \in ImportDocs :
    /\ Answer(Request("import", tok,
                      IF ~data.version THEN 0 ELSE IF data = exported THEN 2 ELSE 1,
                      UNDEFS, UNDEF),
              ImportDatabase(Cur, uploads, tok, data), TRUE)
    /\ UNCHANGED <<now, nextFile, issued, exported>>

ClearDatabaseAct(T) ==
  \E tok \in T :
    /\ Answer(Request("clear", tok, NULL, UNDEFS, UNDEF), ClearDatabase(Cur, uploads, tok), TRUE)
    /\ UNCHANGED <<now, nextFile, issued, exported>>

Browse(r, reply) ==
  /\ AnswerWith(r, Out(Cur, uploads, reply.status), FALSE, reply.body)
  /\ UNCHANGED <<now, nextFile, issued, exported>>

GetSubjectsAct(T) ==
  \E tok \in T :
    Browse(Request("getSubjects", tok, NULL, UNDEFS, UNDEF), GetSubjects(Cur, tok))

GetContentAct(T, Q) ==
  \E tok \in T, q \in Q :
    LET parsed == ParseQuery(q)
    IN Browse([Request("getContent", tok, NULL, UNDEFS, UNDEF)
                 EXCEPT !.query = parsed, !.raw = q],
              GetContent(Cur, tok, parsed))

GetContentByIdAct(T) ==
  \E tok \in T, id \in ContentIds :
    Browse(Request("getContentById", tok, id, UNDEFS, UNDEF), GetContentById(Cur, tok, id))

GetFilesForContentAct(T) ==
  \E tok \in T, id \in ContentIds :
    Browse(Request("getFiles", tok, id, UNDEFS, UNDEF), GetFilesForContent(Cur, tok, id))

GetUsersAct(T) ==
  \E tok \in T :
    Browse(Request("getUsers", tok, NULL, UNDEFS, UNDEF), GetUsers(Cur, tok))

GetUserByIdAct(T) ==
  \E tok \in T, id \in UserIds :
    Browse(Request("getUser", tok, id, UNDEFS, UNDEF), GetUserById(Cur, tok, id))

\* Q: the searches asked for
GetSearchAct(T, Q) ==
  \E tok \in T, query \in Q :
    Browse([Request("search", tok, NULL, UNDEFS, UNDEF) EXCEPT !.raw = query],
           GetSearch(Cur, tok, query))

DownloadFileAct(T) ==
  \E tok \in T, id \in FileIds :
    Browse(Request("download", tok, id, UNDEFS, UNDEF), DownloadFile(Cur, uploads, tok, id))

\* the whole API, every kind of token
Next ==
  \/ LoginAct
  \/ RegisterAsAct(Tokens, {UNDEFS}, TRUE)
  \/ ChangePasswordAct(Tokens, {"p2"}, TRUE)
  \/ UpdateUserAct(Tokens, FewUserBodies)
  \/ DeleteUserAct(Tokens)
  \/ CreateSubjectAct(Tokens)
  \/ UpdateSubjectAct(Tokens)
  \/ DeleteSubjectAct(Tokens)
  \/ UploadFilesAct(Tokens, TRUE)
  \/ DeleteFileAct(Tokens)
  \/ CreateContentAct(Tokens, TRUE)
  \/ UpdateContentAct(Tokens, FewContentUpdates)
  \/ DeleteContentAct(Tokens)
  \/ DatabaseStatsAct(Tokens)
  \/ ExportDatabaseAct(Tokens)
  \/ ImportDatabaseAct(Tokens)
  \/ ClearDatabaseAct(Tokens)

Spec == Init /\ [][Next]_vars

\* user accounts: registration and profile updates by logged-in users; an
\* admin disables, demotes and renames, everyone else sends every body
NextProfile ==
  \/ LoginAct
  \/ RegisterAct(issued, FALSE)
  \/ UpdateUserAct({k \in issued : k.role # "admin"}, UserBodies)
  \/ UpdateUserAct({k \in issued : k.role = "admin"},
                   RevokingBodies \cup {UserBody("admin", UNDEFS, UNDEFS, UNDEFS, UNDEF, UNDEFS, UNDEF)})

SpecProfile == Init /\ [][NextProfile]_vars

\* sessions: logins, password changes, and accounts being deleted, disabled
\* or demoted while tokens issued to them are still in use
NextAuth ==
  \/ LoginAct
  \/ RegisterAct(issued, FALSE)
  \/ ChangePasswordAct(issued, Passwords, FALSE)
  \/ UpdateUserAct(issued, RevokingBodies)
  \/ DeleteUserAct(issued)
  \/ DatabaseStatsAct(issued)

SpecAuth == Init /\ [][NextAuth]_vars

\* uploads, with and without a failing database write
NextUpload ==
  \/ LoginAct
  \/ RegisterAct(issued, FALSE)
  \/ CreateContentAct(issued, FALSE)
  \/ UploadFilesAct(issued, FALSE)
  \/ UploadFilesFailingAct(issued)

SpecUpload == Init /\ [][NextUpload]_vars

\* browsing: the public GET routes over a database that already holds content
\* and files.  Item i was created by the admin; its created_at is the one an
\* import gave it, so the order of creation times is not the order of the ids.
\* File 2 has a record but is no longer in the uploads directory.
Item(i) ==
  [ContentRow(i, "title", "body", IF i % 2 = 1 THEN "news" ELSE "material",
              IF i <= 2 THEN 1 ELSE NULL, AdminId, IF i = 1 THEN jsonStringify(<<"u">>) ELSE "[]")
     EXCEPT !.created_at = MaxItems + 1 - i]

InitBrowse ==
  /\ \E k \in 0..MaxItems, F \in {{}, {1}, {1, 2}} :
       /\ db = [initDatabase.t EXCEPT
                  !.content = {Item(i) : i \in 1..k},
                  !.files = {FileRow(f, 1, "utf8-name", f, "text/plain", 1) : f \in F}]
       /\ dbFile = db
       /\ uploads = F \ {2}
       /\ F # {} => k >= 1
  /\ foreign_keys = initDatabase.fk
  /\ writesSynced = initDatabase.sync
  /\ now = 1
  /\ nextFile = 3
  /\ issued = {}
  /\ exported = NoDoc
  /\ req = Request("listen", NoToken, NULL, UNDEFS, UNDEF)
  /\ resp = [status |-> 0, body |-> NoBody]
  /\ steps = 0
  /\ listening = TRUE
  /\ initialized = TRUE
  /\ call = NoCall

NextBrowse ==
  \/ LoginAct
  \/ GetSubjectsAct(Tokens)
  \/ GetContentAct({NoToken}, Queries)
  \/ GetContentAct({BadToken} \cup issued,
                   {q \in Queries : q.type = UNDEFS /\ q.subject_id = UNDEF})
  \/ GetContentByIdAct(Tokens)
  \/ GetFilesForContentAct(Tokens)
  \/ DownloadFileAct(Tokens)

SpecBrowse == InitBrowse /\ [][NextBrowse]_vars

\* GET /api/content with page and limit as text of every shape
NextPagination ==
  \/ GetContentAct(Tokens, TextQueries)

SpecPagination == InitBrowse /\ [][NextPagination]_vars

\* every route whose answer carries users
NextUsers ==
  \/ LoginAct
  \/ RegisterAct(issued, FALSE)
  \/ UpdateUserAct(issued, FewUserBodies
                             \cup {UserBody(UNDEFS, "p2", UNDEFS, UNDEFS, UNDEF, UNDEFS, UNDEF)})
  \/ GetUsersAct(Tokens)
  \/ GetUserByIdAct(Tokens)
  \/ GetSearchAct(issued, {SearchQuery(<<"a">>, UNDEFS, <<UNDEFS>>)})
  \/ ExportDatabaseAct(issued)

SpecUsers == Init /\ [][NextUsers]_vars

\* GET /api/search by anonymous and logged-in callers
NextSearch ==
  \/ LoginAct
  \/ GetSearchAct(Tokens, SearchQueries)

SpecSearch == InitBrowse /\ [][NextSearch]_vars

\* start of the process: the module body calls initDatabase() without
\* awaiting it and goes on to server.listen; the promise resolves later
InitStart ==
  /\ db = EmptyTables
  /\ dbFile = EmptyTables
  /\ foreign_keys = FALSE
  /\ writesSynced = TRUE
  /\ uploads = {}
  /\ now = 1
  /\ nextFile = 1
  /\ issued = {}
  /\ exported = NoDoc
  /\ req = Request("start", NoToken, NULL, UNDEFS, UNDEF)
  /\ resp = [status |-> 0, body |-> NoBody]
  /\ steps = 0
  /\ listening = FALSE
  /\ initialized = FALSE
  /\ call = NoCall

\* server.listen(PORT)
ListenAct ==
  /\ ~listening
  /\ listening' = TRUE
  /\ UNCHANGED <<db, dbFile, foreign_keys, uploads, now, nextFile, issued, exported,
                 writesSynced, req, resp, steps, initialized, call>>

\* initDatabase() resolves: initSqlJs has loaded, the database is open, the
\* schema and the default rows are there
InitDatabaseAct ==
  /\ ~initialized
  /\ initialized' = TRUE
  /\ db' = initDatabase.t
  /\ dbFile' = initDatabase.file
  /\ foreign_keys' = initDatabase.fk
  /\ writesSynced' = initDatabase.sync
  /\ UNCHANGED <<uploads, now, nextFile, issued, exported, req, resp, steps, listening, call>>

\* POST /api/auth/login while database.cjs still holds db = null: the
\* wrapper's get throws a TypeError, the handler's catch answers 500
EarlyLoginAct ==
  \E username \in Usernames, password \in Passwords :
    /\ listening /\ ~initialized
    /\ req' = Named(Request("login", NoToken, NULL, UNDEFS, UNDEF), username, password)
    /\ resp' = [status |-> 500, body |-> NoBody]
    /\ UNCHANGED <<db, dbFile, foreign_keys, uploads, now, nextFile, issued, exported,
                   writesSynced, steps, listening, initialized, call>>

NextStartup ==
  \/ ListenAct
  \/ InitDatabaseAct
  \/ EarlyLoginAct
  \/ LoginAct
  \/ RegisterAct(issued, FALSE)
  \/ UpdateUserAct(issued, FewUserBodies)

SpecStartup == InitStart /\ [][NextStartup]_vars

\* content and files: logged-in users posting, editing and removing
NextContent ==
  \/ LoginAct
  \/ RegisterAct(issued, FALSE)
  \/ CreateContentAct(issued, FALSE)
  \/ UploadFilesAct(issued, FALSE)
  \/ UpdateContentAct(issued, ContentUpdates)
  \/ DeleteContentAct(issued)
  \/ DeleteFileAct(issued)

SpecContent == Init /\ [][NextContent]_vars

\* one call of fetchWithRetry, with the arguments of ContentCard.fetchFileCount
\* (2, 500), the defaults (3, 1000) and others
FetchWithRetryAct ==
  /\ call.pc = "none"
  /\ \E maxRetries \in 0..MaxRetries, baseDelay \in {500, 1000} :
       call' = Call(maxRetries, baseDelay, 0, NULL, "loop", <<>>, <<>>, NULL)
  /\ UNCHANGED <<db, dbFile, foreign_keys, uploads, now, nextFile, issued, exported,
                 writesSynced, req, resp, steps, listening, initialized>>

\* for (let i = 0; i < maxRetries; ...), and the throw after the loop
LoopAct ==
  /\ call.pc = "loop"
  /\ call' = IF call.i < call.maxRetries
               THEN [call EXCEPT !.pc = "fetch"]
               ELSE [call EXCEPT !.pc = "thrown",
                                 !.result = IF call.lastError # NULL THEN call.lastError
                                            ELSE FetchFailed]
  /\ UNCHANGED <<db, dbFile, foreign_keys, uploads, now, nextFile, issued, exported,
                 writesSynced, req, resp, steps, listening, initialized>>

\* await fetch(url, options) settles; the try block and the catch up to the wait
FetchAct ==
  /\ call.pc = "fetch"
  /\ \E outcome \in {200, 204, 304, 404, 500, 503, NetworkError} :
       LET got == [call EXCEPT !.outcomes = Append(@, outcome)]
       IN call' =
            IF outcome # NetworkError /\ ok(outcome)
              THEN [got EXCEPT !.pc = "returned", !.result = outcome]
            ELSE IF outcome # NetworkError /\ outcome >= 400 /\ outcome < 500
              THEN [got EXCEPT !.pc = "returned", !.result = outcome]
            ELSE IF call.i = call.maxRetries - 1
              THEN [got EXCEPT !.lastError = outcome, !.pc = "thrown", !.result = outcome]
            ELSE [got EXCEPT !.lastError = outcome, !.pc = "wait"]
  /\ UNCHANGED <<db, dbFile, foreign_keys, uploads, now, nextFile, issued, exported,
                 writesSynced, req, resp, steps, listening, initialized>>

\* await new Promise(resolve => setTimeout(resolve, delay)), then i++
WaitAct ==
  /\ call.pc = "wait"
  /\ call' = [call EXCEPT !.delays = Append(@, delay(call.baseDelay, call.i)),
                          !.i = @ + 1, !.pc = "loop"]
  /\ UNCHANGED <<db, dbFile, foreign_keys, uploads, now, nextFile, issued, exported,
                 writesSynced, req, resp, steps, listening, initialized>>

NextRetry ==
  \/ FetchWithRetryAct
  \/ LoopAct
  \/ FetchAct
  \/ WaitAct

SpecRetry == Init /\ [][NextRetry]_vars

TypeOK ==
  /\ steps \in 0..MaxSteps /\ now \in 1..MaxTime /\ nextFile \in 1..(MaxFiles + 1)
  /\ listening \in BOOLEAN /\ initialized \in BOOLEAN

\* ================================================================= claims
StateChanging ==
  {"register", "change-password", "updateUser", "deleteUser", "createSubject", "updateSubject",
   "deleteSubject", "upload", "deleteFile", "createContent", "updateContent", "deleteContent",
   "import", "clear"}
AdminOnly ==
  {"register", "deleteUser", "createSubject", "updateSubject", "deleteSubject", "stats",
   "export", "import", "clear"}
ReadOnly == {"login", "stats", "export"}

Authenticated(r) == r.tok.kind = "valid"
StoreUnchanged == db' = db /\ dbFile' = dbFile /\ uploads' = uploads

\* C1: a state-changing endpoint answers a request without a token with 401
\* and one whose token fails verification with 403, and neither request
\* changes the database (memory and file) or the uploads directory.
C1_UnauthenticatedRejected ==
  [][ (req'.op \in StateChanging /\ ~Authenticated(req'))
        => /\ resp'.status = (IF req'.tok.kind = "none" THEN 401 ELSE 403)
           /\ StoreUnchanged ]_vars

C1_Witness ==
  /\ req.op \in StateChanging /\ req.tok.kind = "invalid" /\ resp.status = 403
  /\ steps = 1 /\ issued # {}

\* C2: an admin-only operation requested with a verified token whose role
\* (req.user.role) is not admin is answered 403 and changes no row, no stored
\* file and yields no export.
C2_AdminOnly ==
  [][ (req'.op \in AdminOnly /\ Authenticated(req') /\ req'.tok.role # "admin")
        => /\ resp'.status = 403
           /\ StoreUnchanged
           /\ exported' = exported ]_vars

C2_Witness ==
  /\ req.op \in AdminOnly /\ Authenticated(req) /\ req.tok.role # "admin" /\ resp.status = 403
  /\ \E u \in db.users : u.id = req.tok.id /\ u.role # "admin"

\* ---- PUT /api/users/:id by a requester whose token role is not admin
NonAdminUserUpdate(r) == r.op = "updateUser" /\ Authenticated(r) /\ r.tok.role # "admin"

Others(users, id) == {u \in users : u.id # id}

\* only username, password, full_name and profile_picture of the requester's
\* own row may differ after the request
ProfileFrame ==
  /\ Others(db'.users, req'.tok.id) = Others(db.users, req'.tok.id)
  /\ \A u \in db.users : u.id = req'.tok.id =>
       \E v \in db'.users :
         /\ v.id = u.id /\ v.role = u.role /\ v.is_active = u.is_active
         /\ v.assigned_subject_id = u.assigned_subject_id
  /\ Ids(db'.users) = Ids(db.users)
  /\ db'.subjects = db.subjects /\ db'.content = db.content /\ db'.files = db.files
  /\ uploads' = uploads

\* C3 as stated: the frame above, and 403 for a request to another user's id
\* or one whose body carries role or is_active.
C3_Original ==
  [][ NonAdminUserUpdate(req')
        => /\ ProfileFrame
           /\ (req'.id # req'.tok.id \/ req'.role # UNDEFS \/ req'.is_active # UNDEF)
                => resp'.status = 403 ]_vars

\* C3 amended: the frame above, and 403 for a request to another user's id or
\* one whose body carries a non-empty role or any is_active; a body whose role
\* is the empty string is processed with the role ignored.
C3_ProfileUpdateFrame ==
  [][ NonAdminUserUpdate(req')
        => /\ ProfileFrame
           /\ (req'.id # req'.tok.id \/ TruthyS(req'.role) \/ req'.is_active # UNDEF)
                => resp'.status = 403 ]_vars

C3_Witness ==
  /\ NonAdminUserUpdate(req) /\ req.id = req.tok.id /\ resp.status = 200
  /\ \E u \in db.users : u.id = req.tok.id /\ u.full_name = "name" /\ u.role # "admin"

\* ---- content and files
ContentWrite(r) == r.op \in {"createContent", "updateContent"}

\* C4: a POST /api/content or PUT /api/content/:id by a teacher leaves every
\* content row it wrote, authored by that teacher, with subject_id null or
\* equal to the teacher's assigned_subject_id.
C4_TeacherOwnSubject ==
  [][ (ContentWrite(req') /\ Authenticated(req') /\ req'.tok.role = "teacher")
        => \A u \in db'.users : (u.id = req'.tok.id /\ u.role = "teacher") =>
             \A c \in db'.content \ db.content :
               c.author_id = u.id => c.subject_id \in {NULL, u.assigned_subject_id} ]_vars

\* the requester is the author of the content item the request concerns
IsAuthor(r) ==
  IF r.op = "deleteFile"
    THEN \E f \in db.files : f.id = r.id
           /\ \E c \in db.content : c.id = f.content_id /\ c.author_id = r.tok.id
    ELSE \E c \in db.content : c.id = r.id /\ c.author_id = r.tok.id

TargetExists(r) ==
  IF r.op = "deleteFile" THEN r.id \in Ids(db.files) ELSE r.id \in Ids(db.content)

\* C5: PUT /api/content/:id, DELETE /api/content/:id and DELETE
\* /api/files/:file_id for an existing target, requested by someone who is
\* neither admin nor the author of the content item, are answered 403 and
\* change nothing.
C5_AuthorOrAdmin ==
  [][ (req'.op \in {"updateContent", "deleteContent", "deleteFile"} /\ Authenticated(req')
       /\ TargetExists(req') /\ req'.tok.role # "admin" /\ ~IsAuthor(req'))
        => resp'.status = 403 /\ StoreUnchanged ]_vars

\* C6: a POST /api/content from a user whose role is 'user' adds no content row.
C6_UsersCannotPost ==
  [][ (req'.op = "createContent" /\ Authenticated(req') /\ req'.tok.role = "user")
        => db'.content = db.content ]_vars

\* ---- database import / export
AdminRequest(r, op) == r.op = op /\ Authenticated(r) /\ r.tok.role = "admin"

\* C7: an import that got as far as BEGIN (the document carries a version)
\* and is answered 500 leaves the database, in memory and in school.db, with
\* exactly the rows it had before the request.
C7_ImportAtomic ==
  [][ (AdminRequest(req', "import") /\ req'.id >= 1 /\ resp'.status = 500)
        => db' = db /\ dbFile' = dbFile ]_vars

Range(f) == {f[i] : i \in DOMAIN f}

\* the tables hold what the exported document holds, admin rows aside
HoldsDocument(t, data) ==
  /\ t.subjects = {SubjectRow(r.id, r.name, r.description) : r \in Range(data.subjects)}
  /\ t.content = {ContentRow(c.id, c.title, c.body, c.type, c.subject_id, c.author_id, c.media_urls)
                  : c \in Range(data.content)}
  /\ t.files = {FileRow(f.id, f.content_id, f.filename, f.stored_filename, f.mime_type, f.size)
                : f \in Range(data.files)}
  /\ {u.id : u \in {v \in t.users : v.username # "admin"}}
       = {u.id : u \in {v \in Range(data.users) : v.username # "admin"}}

\* C8: an export requested by an admin succeeds, and importing the exported
\* document succeeds and leaves subjects, content (with media_urls), file
\* records and non-admin users as they were exported.
C8_ExportImportRoundTrip ==
  [][ /\ AdminRequest(req', "export") => resp'.status = 200
      /\ (AdminRequest(req', "import") /\ req'.id = 2)
           => (resp'.status = 200 /\ HoldsDocument(db', exported)) ]_vars

\* C9: after every successful write through the wrapper school.db holds the
\* in-memory tables, and a request that only reads (get / all) leaves
\* school.db as it was.
C9_FileFollowsMemory ==
  [][ /\ writesSynced /\ writesSynced'
      /\ req'.op \in ReadOnly => dbFile' = dbFile ]_vars

C9_Witness ==
  /\ req.op = "createSubject" /\ resp.status = 201 /\ writesSynced
  /\ dbFile = db /\ \E r \in dbFile.subjects : r.name = "created"

\* C10: every file record points at an existing content item, and every
\* subject_id, author_id and assigned_subject_id is null or the id of an
\* existing row.
C10_ReferentialIntegrity ==
  /\ \A f \in db.files : f.content_id \in Ids(db.content)
  /\ \A c \in db.content : c.subject_id \in {NULL} \cup Ids(db.subjects)
  /\ \A c \in db.content : c.author_id \in {NULL} \cup Ids(db.users)
  /\ \A u \in db.users : u.assigned_subject_id \in {NULL} \cup Ids(db.subjects)

\* ---- user names
\* the request passed the route's guards and reached the user-name lookup
ReachesNameCheck(r) ==
  CASE r.op = "register" -> AdminGuard(r.tok) = 0
    [] r.op = "updateUser" ->
         /\ authenticateToken(r.tok) = 0
         /\ r.tok.role = "admin"
              \/ (r.id = r.tok.id /\ ~TruthyS(r.role) /\ r.is_active = UNDEF)
    [] OTHER -> FALSE

\* the name the request asks for is held by a user other than its target
NameHeldByOther(r) ==
  /\ r.username # UNDEFS
  /\ \E u \in db.users : u.username = r.username /\ (r.op = "updateUser" => u.id # r.id)

\* C11: no two users ever have the same username, and a register request or
\* a user update that asks for a username held by a different user is
\* answered 400 and changes nothing.
C11_UniqueUsernames ==
  /\ [](\A u, v \in db.users : u.username = v.username => u = v)
  /\ [][ (ReachesNameCheck(req') /\ NameHeldByOther(req'))
           => resp'.status = 400 /\ StoreUnchanged ]_vars

C11_Witness ==
  /\ req.op = "updateUser" /\ resp.status = 400 /\ req.username = "admin"
  /\ req.tok.role # "admin" /\ req.id = req.tok.id
  /\ \E u \in db.users : u.id = req.id /\ u.username = "u1"

\* ---- login and passwords
\* the user rows a login names, and whether the credentials are good
Named_users(r) == {u \in db.users : u.username = r.username}
GoodLogin(r) ==
  \E u \in Named_users(r) : u.is_active # 0 /\ u.password = hashSync(r.password)

\* C12: a login is answered 200 and adds a token for the named user exactly
\* when the username exists, the account is active and the password matches;
\* a disabled account is answered 403, an unknown username or a wrong
\* password on an active account 401; the database is never changed.
C12_LoginIssuesToken ==
  [][ req'.op = "login"
        => /\ (resp'.status = 200) <=> GoodLogin(req')
           /\ issued' = issued \cup (IF GoodLogin(req')
                                       THEN {jwtSign(u) : u \in Named_users(req')} ELSE {})
           /\ Named_users(req') = {} => resp'.status = 401
           /\ (\E u \in Named_users(req') : u.is_active = 0) => resp'.status = 403
           /\ (\E u \in Named_users(req') : u.is_active # 0 /\ u.password # hashSync(req'.password))
                => resp'.status = 401
           /\ StoreUnchanged ]_vars

C12_Witness ==
  /\ req.op = "login" /\ resp.status = 403 /\ req.username = "u1"
  /\ \E u \in db.users : u.username = "u1" /\ u.is_active = 0 /\ u.password = hashSync(req.password)
  /\ \E k \in issued : k.username = "admin"

\* a login with these credentials would be answered with a token
CanLogin(users, username, password) ==
  \E u \in users : u.username = username /\ u.is_active # 0 /\ u.password = hashSync(password)

\* the caller's row before the request
Caller(r) == {u \in db.users : u.id = r.tok.id}

\* a change-password request leaves everything but the caller's password
PasswordFrame ==
  /\ {[u EXCEPT !.password = ""] : u \in db'.users} = {[u EXCEPT !.password = ""] : u \in db.users}
  /\ Others(db'.users, req'.tok.id) = Others(db.users, req'.tok.id)
  /\ db'.subjects = db.subjects /\ db'.content = db.content /\ db'.files = db.files
  /\ uploads' = uploads

\* C13 as stated: 401 and no change on a mismatch; after a success a login
\* with the new password succeeds and one with the old password fails; no
\* other user's password changes.
C13_Original ==
  [][ (req'.op = "change-password" /\ Authenticated(req'))
        => \A u \in Caller(req') :
             /\ u.password # hashSync(req'.password) => (resp'.status = 401 /\ StoreUnchanged)
             /\ resp'.status = 200
                  => /\ CanLogin(db'.users, u.username, req'.newPassword)
                     /\ ~CanLogin(db'.users, u.username, req'.password)
             /\ PasswordFrame ]_vars

\* C13 amended: 401 and no change on a mismatch; after a success the stored
\* hash is that of the new password, so a login with it succeeds exactly when
\* the account is active and a login with the old one fails unless the two
\* passwords are equal; no other user's password changes.
C13_ChangePassword ==
  [][ (req'.op = "change-password" /\ Authenticated(req'))
        => \A u \in Caller(req') :
             /\ u.password # hashSync(req'.password) => (resp'.status = 401 /\ StoreUnchanged)
             /\ u.password = hashSync(req'.password) => resp'.status = 200
             /\ resp'.status = 200
                  => /\ \A v \in db'.users : v.id = u.id => v.password = hashSync(req'.newPassword)
                     /\ CanLogin(db'.users, u.username, req'.newPassword) <=> u.is_active # 0
                     /\ req'.password # req'.newPassword
                          => ~CanLogin(db'.users, u.username, req'.password)
             /\ PasswordFrame ]_vars

C13_Witness ==
  /\ req.op = "change-password" /\ resp.status = 200 /\ req.password # req.newPassword
  /\ \E u \in db.users : u.id = req.tok.id /\ u.password = hashSync(req.newPassword)
                         /\ u.password # hashSync("admin123") /\ u.username = "admin"

\* ---- POST /api/database/clear
\* what a clear leaves: empty files, content and subjects, no stored file of
\* a former record, and exactly the rows of username 'admin', untouched
Cleared ==
  /\ db'.files = {} /\ db'.content = {} /\ db'.subjects = {}
  /\ uploads' \cap {f.stored_filename : f \in db.files} = {}
  /\ db'.users = {u \in db.users : u.username = "admin"}

\* C14: a clear requested by an admin succeeds and leaves the database
\* cleared, keeping the users named 'admin' with password and role unchanged.
C14_ClearKeepsAdmin ==
  [][ AdminRequest(req', "clear") => (resp'.status = 200 /\ Cleared) ]_vars

\* ---- start-up
\* C15: every request is answered after initDatabase has completed.
C15_InitBeforeServing ==
  [][ (req' # req \/ resp' # resp) => initialized ]_vars

\* ---- the public GET routes
Browsing == {"getSubjects", "getContent", "getContentById", "getFiles", "download"}

\* what the route answers to the same request sent without a token
AnonymousReply(r) ==
  CASE r.op = "getSubjects" -> GetSubjects(Cur, NoToken)
    [] r.op = "getContent" -> GetContent(Cur, NoToken, r.query)
    [] r.op = "getContentById" -> GetContentById(Cur, NoToken, r.id)
    [] r.op = "getFiles" -> GetFilesForContent(Cur, NoToken, r.id)
    [] r.op = "download" -> DownloadFile(Cur, uploads, NoToken, r.id)

\* C16: each of the five public GET routes answers a request, whatever token
\* it carries, with the status and body it gives the same request without a
\* token, and changes neither the database nor the uploads directory.
C16_BrowsingIsPublic ==
  [][ req'.op \in Browsing
        => /\ resp' = AnonymousReply(req')
           /\ resp'.status \notin {401, 403}
           /\ StoreUnchanged ]_vars

C16_Witness ==
  /\ req.op = "getContent" /\ req.tok.kind = "invalid" /\ resp.status = 200
  /\ Len(resp.body.data) = 2 /\ resp.body.pagination.total = 3

\* ---- tokens that outlive the account
\* the row, as it is now, of the user the token was issued to
Holder(r) == {u \in db.users : u.id = r.tok.id}

\* C17: a request with a verified token whose user has been deleted or
\* disabled is refused and changes nothing, and so is a request for an
\* admin-only operation with a token whose user is no longer an admin.
C17_StaleTokenRefused ==
  [][ (Authenticated(req') /\ req'.op \in StateChanging \cup AdminOnly)
        => /\ (Holder(req') = {} \/ \E u \in Holder(req') : u.is_active = 0)
                => (resp'.status \in {401, 403} /\ StoreUnchanged)
           /\ (req'.op \in AdminOnly /\ \A u \in Holder(req') : u.role # "admin")
                => (resp'.status = 403 /\ StoreUnchanged) ]_vars

\* ---- DELETE /api/content/:id
\* the file records of the content item a request names
FilesOf(r) == {f \in db.files : f.content_id = r.id}

\* C18: after a successful DELETE /api/content/:id the item, its file
\* records and their stored files are gone, and every other content item,
\* file record and stored file is as before.
C18_DeleteContentCascade ==
  [][ (req'.op = "deleteContent" /\ resp'.status = 200)
        => /\ db'.content = {c \in db.content : c.id # req'.id}
           /\ db'.files = db.files \ FilesOf(req')
           /\ uploads' = uploads \ {f.stored_filename : f \in FilesOf(req')} ]_vars

\* ---- POST /api/files/upload
\* C19: an upload answered with an error status leaves no stored file and no
\* file record of that request behind.
C19_UploadAllOrNothing ==
  [][ (req'.op = "upload" /\ resp'.status >= 400)
        => (uploads' \subseteq uploads /\ db'.files \subseteq db.files) ]_vars

\* ---- GET /api/content pagination
\* the content items a query's type and subject_id filters select
Matching(q) ==
  {c \in db.content : /\ (q.type # UNDEFS => c.type = q.type)
                      /\ (q.subject_id # UNDEF => c.subject_id = q.subject_id)}

\* position of an item among the matching ones, newest first
Position(c, q) == 1 + Cardinality({o \in Matching(q) : o.created_at > c.created_at})

\* C20: for page >= 1 and 1 <= limit <= 100 the answer is 200, data holds
\* exactly the matching items at positions (page-1)*limit+1 .. page*limit in
\* order of descending created_at, total is the number of matching items,
\* totalPages = ceil(total/limit), and hasMore says whether matching items
\* lie beyond the page.
C20_Pagination ==
  [][ (req'.op = "getContent" /\ req'.query.page >= 1
       /\ req'.query.limit >= 1 /\ req'.query.limit <= 100)
        => LET q == req'.query
               total == Cardinality(Matching(q))
               lo == (q.page - 1) * q.limit + 1
               hi == q.page * q.limit
               data == resp'.body.data
               p == resp'.body.pagination
           IN /\ resp'.status = 200
              /\ {row.id : row \in Range(data)}
                   = {c.id : c \in {m \in Matching(q) : Position(m, q) \in lo..hi}}
              /\ \A i \in DOMAIN data :
                   \E c \in Matching(q) : c.id = data[i].id /\ Position(c, q) = lo + i - 1
              /\ p.total = total
              /\ p.totalPages * q.limit >= total /\ (p.totalPages - 1) * q.limit < total
              /\ p.totalPages >= 0
              /\ p.hasMore <=> (hi < total) ]_vars

C20_Witness ==
  /\ req.op = "getContent" /\ req.query.page = 2 /\ req.query.limit = 1
  /\ req.query.type = "news" /\ resp.status = 200
  /\ Len(resp.body.data) = 1 /\ resp.body.data[1].id = 3
  /\ resp.body.pagination.total = 2 /\ ~resp.body.pagination.hasMore

\* ---- GET /api/content validation
\* text that is a decimal integer: optional white space, an optional sign, digits
RECURSIVE IntegerText(_)
IntegerText(s) ==
  IF s # <<>> /\ Head(s) = " " THEN IntegerText(Tail(s))
  ELSE LET u == IF s # <<>> /\ Head(s) \in {"-", "+"} THEN Tail(s) ELSE s
       IN u # <<>> /\ \A i \in DOMAIN u : u[i] \in Range(DigitChars)

\* page is an integer >= 1 and limit an integer in 1..100; an absent parameter
\* stands for its default
ValidPagination(q) ==
  /\ q.page = <<UNDEFS>> \/ (IntegerText(q.page) /\ parseInt(q.page) >= 1)
  /\ q.limit = <<UNDEFS>>
       \/ (IntegerText(q.limit) /\ parseInt(q.limit) >= 1 /\ parseInt(q.limit) <= 100)

\* C21: every GET /api/content whose page is not an integer >= 1 or whose
\* limit is not an integer between 1 and 100, non-numeric text included, is
\* answered 400 and no rows are sent.
C21_PaginationValidated ==
  [][ (req'.op = "getContent" /\ ~ValidPagination(req'.raw))
        => (resp'.status = 400 /\ resp'.body = NoBody) ]_vars

\* ---- GET /api/search
\* the request asks for users: type is absent, 'all' or 'users'
AsksForUsers(r) == r.raw.type \in {UNDEFS, "all", "users"}

\* the users a search term matches
MatchingUsers(r) ==
  {u \in db.users : Like(u.username, trim(r.raw.q)) \/ Like(u.full_name, trim(r.raw.q))}

\* C22: a search lists users exactly when it comes from an authenticated
\* admin and its type is absent, 'all' or 'users': then the matching users are
\* listed (as far as the limit allows), and for every other request the users
\* list is empty.
C22_SearchUsersAdminOnly ==
  [][ (req'.op = "search" /\ resp'.status = 200)
        => IF AdminGuard(req'.tok) = 0 /\ AsksForUsers(req') /\ Len(trim(req'.raw.q)) > 0
             THEN MatchingUsers(req') # {} => resp'.body.users # <<>>
             ELSE resp'.body.users = <<>> ]_vars

\* C23: whatever the limit parameter, each list of a search answer has at most
\* min(limit, 100) entries, 20 when the limit is absent or no number.
C23_SearchLimit ==
  [][ (req'.op = "search" /\ resp'.status = 200)
        => LET n == IF req'.raw.limit = <<UNDEFS>> THEN NaN ELSE parseInt(req'.raw.limit)
               asked == IF n = NaN THEN 20 ELSE IF n < 0 THEN 0 ELSE n
               cap == IF asked < 100 THEN asked ELSE 100
           IN /\ Len(resp'.body.content) <= cap
              /\ Len(resp'.body.subjects) <= cap
              /\ Len(resp'.body.users) <= cap ]_vars

\* ---- response bodies
\* the user rows a response carries: the data of a body, the users of a search
SentRows ==
  IF "users" \in DOMAIN resp.body THEN Range(resp.body.users) ELSE Range(resp.body.data)

\* C24: no response body carries a user's password or its hash: no row sent
\* has a password field, no user text sent is a stored hash, and an exported
\* document holds no password.
C24_NoPasswordInBodies ==
  /\ \A row \in SentRows :
       /\ "password" \notin DOMAIN row
       /\ \A f \in DOMAIN row \cap {"username", "full_name", "profile_picture", "author_name"} :
            row[f] \notin {u.password : u \in db.users}
  /\ \A i \in DOMAIN exported.users : exported.users[i].password = UNDEFS

C24_Witness ==
  /\ req.op = "getUsers" /\ resp.status = 200 /\ Len(resp.body.data) = 2
  /\ \E i \in 1..2 : resp.body.data[i].username = "u1"
  /\ \E u \in db.users : u.username = "u1" /\ u.password = hashSync("p2")

\* ---- the last admin
\* C25: in every state after initialization some user is an active admin: no
\* deletion, update, clear or import removes, demotes or disables the last one.
C25_AdminRemains == \E u \in db.users : u.role = "admin" /\ u.is_active = 1

\* ---- fetchWithRetry
\* a response that ends the call: ok, or a 4xx status
Settling(outcome) ==
  outcome # NetworkError /\ ((outcome >= 200 /\ outcome <= 299) \/ (outcome >= 400 /\ outcome <= 499))

\* what holds at every point of a call
RetryInvariant ==
  LET n == Len(call.outcomes)
  IN /\ n <= call.maxRetries
     /\ \A k \in 1..(n - 1) : ~Settling(call.outcomes[k])
     /\ (n > 0 /\ Settling(call.outcomes[n]))
          => (call.pc = "returned" /\ call.result = call.outcomes[n])
     /\ call.pc = "returned" => (n > 0 /\ call.result = call.outcomes[n] /\ Settling(call.result))
     /\ \A k \in DOMAIN call.delays : call.delays[k] = call.baseDelay * 2^(k - 1)
     /\ call.pc \in {"loop", "fetch"} => Len(call.delays) = n
     /\ call.pc \in {"wait", "returned", "thrown"} /\ n > 0 => Len(call.delays) = n - 1
     /\ call.pc = "thrown"
          => /\ n = call.maxRetries
             /\ n > 0 => (call.result = call.outcomes[n] /\ ~Settling(call.result))
     /\ (n = call.maxRetries /\ n > 0 /\ ~Settling(call.outcomes[n])) => call.pc = "thrown"

\* C26: fetchWithRetry calls fetch at most maxRetries times; the first
\* response that is ok or 4xx is returned at once; after a 5xx response or a
\* network error it waits baseDelay * 2^i before attempt i+1; when maxRetries
\* attempts have failed it throws the last error; and a settled call makes no
\* further attempt.
C26_FetchWithRetry ==
  /\ []RetryInvariant
  /\ [][call.pc \in {"returned", "thrown"} => call' = call]_vars

C26_Witness ==
  /\ call.pc = "thrown" /\ call.maxRetries = 3 /\ call.baseDelay = 500
  /\ call.outcomes = <<500, NetworkError, 503>>
  /\ call.delays = <<500, 1000>> /\ call.result = 503

====
